---- MODULE Spec2Model ----
(***************************************************************************)
(* Model of the autoops agent core: the deterministic done-check, the      *)
(* tool router with its result cache, the plan executor, the agent loop    *)
(* and the structured-output protocol of the LLM client.                   *)
(*                                                                         *)
(* Python strings are sequences of one-character strings.  JSON-like       *)
(* Python values are records [t, s, l]: t is the Python type, s the text   *)
(* of a str (or the digits of a number), l the items of a list or tuple.   *)
(* A Python dict is the sequence of its items in insertion order, each     *)
(* [k, kt, v] (key, type of the key, value).                               *)
(***************************************************************************)
EXTENDS Integers, Sequences, FiniteSets, TLC

\* ------------------------------------------------------------------ bounds
MaxIter == 2
MaxCalls == 2
MaxAttemptsBound == 3

\* ------------------------------------------------------------ Python strings
WhiteSpace == {" ", "\n", "\t"}

\* str.lower(), on the letters the modelled objectives use
LowerChar(c) ==
    CASE c = "S" -> "s"
      [] c = "E" -> "e"
      [] c = "N" -> "n"
      [] c = "T" -> "t"
      [] c = "C" -> "c"
      [] OTHER -> c

Lower(s) == [i \in 1..Len(s) |-> LowerChar(s[i])]

\* str.replace(old, new) for one-character old and new
Replace(s, old, new) == [i \in 1..Len(s) |-> IF s[i] = old THEN new ELSE s[i]]

RECURSIVE LStrip(_)
LStrip(s) == IF s # <<>> /\ Head(s) \in WhiteSpace THEN LStrip(Tail(s)) ELSE s

RECURSIVE RStrip(_)
RStrip(s) ==
    IF s # <<>> /\ s[Len(s)] \in WhiteSpace THEN RStrip(SubSeq(s, 1, Len(s) - 1)) ELSE s

\* str.strip()
Strip(s) == RStrip(LStrip(s))

\* str.split(sep) for a one-character sep: always at least one piece
RECURSIVE SplitAcc(_, _, _)
SplitAcc(s, sep, cur) ==
    IF s = <<>> THEN <<cur>>
    ELSE IF Head(s) = sep THEN <<cur>> \o SplitAcc(Tail(s), sep, <<>>)
    ELSE SplitAcc(Tail(s), sep, Append(cur, Head(s)))

Split(s, sep) == SplitAcc(s, sep, <<>>)

\* `needle in s` for strings
Contains(s, needle) ==
    \E i \in 0..(Len(s) - Len(needle)) : SubSeq(s, i + 1, i + Len(needle)) = needle

\* s.split(sep, 1)[1]: the text after the first sep (sep occurs in s)
RECURSIVE AfterFirst(_, _)
AfterFirst(s, sep) ==
    IF s = <<>> THEN <<>>
    ELSE IF Head(s) = sep THEN Tail(s) ELSE AfterFirst(Tail(s), sep)

NonBlank(s) == Strip(s) # <<>>

\* [x for x in pieces if x.strip()]
RECURSIVE NonBlankOnly(_)
NonBlankOnly(pieces) ==
    IF pieces = <<>> THEN <<>>
    ELSE (IF NonBlank(Head(pieces)) THEN <<Head(pieces)>> ELSE <<>>)
         \o NonBlankOnly(Tail(pieces))

\* ------------------------------------------------------------- Python values
NoneV == [t |-> "none", s |-> <<>>, l |-> <<>>]
StrV(chars) == [t |-> "str", s |-> chars, l |-> <<>>]
NumV(digits) == [t |-> "int", s |-> digits, l |-> <<>>]
\* The float digits.0
FloatV(digits) == [t |-> "float", s |-> digits, l |-> <<>>]
ListV(items) == [t |-> "list", s |-> <<>>, l |-> items]
TupleV(items) == [t |-> "tuple", s |-> <<>>, l |-> items]

Item(k, v) == [k |-> k, kt |-> "str", v |-> v]
IntKeyItem(k, v) == [k |-> k, kt |-> "int", v |-> v]

\* dict.get(key) for a str key: None when the key is absent
DictGet(d, key) ==
    IF \E i \in 1..Len(d) : d[i].kt = "str" /\ d[i].k = key
    THEN d[CHOOSE i \in 1..Len(d) : d[i].kt = "str" /\ d[i].k = key].v
    ELSE NoneV

DictKeys(d) == {d[i].k : i \in 1..Len(d)}

\* d[key] = value: an existing key keeps its place, a new key goes last
DictSet(d, key, value) ==
    IF \E i \in 1..Len(d) : d[i].kt = "str" /\ d[i].k = key
    THEN [i \in 1..Len(d) |->
            IF d[i].kt = "str" /\ d[i].k = key THEN Item(key, value) ELSE d[i]]
    ELSE Append(d, Item(key, value))

\* Python ==: an int and a float of the same value are equal
PyEqual(v1, v2) ==
    \/ v1 = v2
    \/ /\ v1.t \in {"int", "float"}
       /\ v2.t \in {"int", "float"}
       /\ v1.s = v2.s

\* Python dict equality: the same keys with equal values, whatever the
\* insertion order
SameMapping(d1, d2) ==
    /\ Len(d1) = Len(d2)
    /\ \A i \in 1..Len(d1) : \E j \in 1..Len(d2) :
          /\ d1[i].k = d2[j].k
          /\ d1[i].kt = d2[j].kt
          /\ PyEqual(d1[i].v, d2[j].v)

\* ------------------------------------------------- values used by the model
C(a) == <<a>>

\* "2 sentence", the text deterministic_done_check looks for in the objective
TwoSentenceText == <<"2", " ", "s", "e", "n", "t", "e", "n", "c", "e">>

\* "2 Sentence:a.b"
ObjTwoSentence ==
    <<"2", " ", "S", "e", "n", "t", "e", "n", "c", "e", ":", "a", ".", "b">>
\* "s: a:b. "
ObjOnePoint == <<"s", ":", " ", "a", ":", "b", ".", " ">>
\* "x.y.z"
ObjNoPayload == <<"x", ".", "y", ".", "z">>

Objectives == {ObjTwoSentence, ObjOnePoint, ObjNoPayload}

\* An entry of AgentState.last_tool_results (kind "data" or "error"); kind
\* "none" is Python's None and kind "empty" the empty dict.
ResultEntry(kind, step_id, tool_name, data, error) ==
    [kind |-> kind, step_id |-> step_id, tool_name |-> tool_name,
     data |-> data, error |-> error]

NoResult == ResultEntry("none", 0, "", <<>>, <<>>)
EmptyResult == ResultEntry("empty", 0, "", <<>>, <<>>)

\* ------------------------------------------------- deterministic_done_check
DoneCheck(done, msg, summary, key_points, got) ==
    [done |-> done,
     rationale |-> [msg |-> msg, summary |-> summary,
                    key_points |-> key_points, got |-> got]]

NotDone(msg, got) == DoneCheck(FALSE, msg, <<>>, <<>>, got)

\* A mutant of SentenceCount: "?" does not end a sentence
SentenceCountNoQuestionMark(summary) ==
    Len(NonBlankOnly(Split(Replace(summary, "!", "."), ".")))

\* len([s for s in summary.replace("!", ".").replace("?", ".").split(".") if s.strip()])
SentenceCount(summary) ==
    Len(NonBlankOnly(Split(Replace(Replace(summary, "!", "."), "?", "."), ".")))

\* str(k).strip() for k in key_points if str(k).strip()
RECURSIVE StrippedPoints(_)
StrippedPoints(items) ==
    IF items = <<>> THEN <<>>
    ELSE (IF NonBlank(Head(items).s) THEN <<Strip(Head(items).s)>> ELSE <<>>)
         \o StrippedPoints(Tail(items))

deterministic_done_check(objective, latest_tool_result) ==
    IF latest_tool_result.kind \in {"none", "empty"}
    THEN NotDone("No tool result available yet.", 0)
    ELSE
      LET data == IF latest_tool_result.kind = "data"
                  THEN latest_tool_result.data ELSE <<>>
          summary == DictGet(data, "summary")
          key_points == DictGet(data, "key_points")
      IN  IF summary.t # "str" \/ Strip(summary.s) = <<>>
          THEN NotDone("Missing data.summary.", 0)
          ELSE IF key_points.t # "list" \/ Len(key_points.l) < 2
          THEN NotDone("Missing data.key_points (need at least 2).", 0)
          ELSE IF Contains(Lower(objective), TwoSentenceText)
                  /\ (SentenceCount(summary.s) < 1 \/ SentenceCount(summary.s) > 3)
          THEN NotDone("Summary sentence count out of range", SentenceCount(summary.s))
          ELSE DoneCheck(TRUE, "SUMMARY", Strip(summary.s),
                         StrippedPoints(key_points.l), 0)

\* ------------------------------------------------------------ JSON encoding
\* The keys the modelled dicts use, in the order sort_keys=True puts them
SortedKeys == <<"1", "a", "b", "extra", "key_points", "max_sentences", "summary", "text">>

KeyRank(k) == CHOOSE i \in 1..Len(SortedKeys) : SortedKeys[i] = k

\* json.dumps writes a tuple as an array, so it reads back as a list
JsonValue(v) == IF v.t = "tuple" THEN ListV(v.l) ELSE v

\* json.dumps writes every key as a string
JsonItem(it) == Item(it.k, JsonValue(it.v))

RECURSIVE InsertByKey(_, _)
InsertByKey(sorted, it) ==
    IF sorted = <<>> THEN <<it>>
    ELSE IF KeyRank(it.k) < KeyRank(Head(sorted).k) THEN <<it>> \o sorted
    ELSE <<Head(sorted)>> \o InsertByKey(Tail(sorted), it)

RECURSIVE SortByKey(_)
SortByKey(d) ==
    IF d = <<>> THEN <<>>
    ELSE InsertByKey(SortByKey(SubSeq(d, 1, Len(d) - 1)), JsonItem(d[Len(d)]))

\* A mutant of _stable_json: json.dumps without sort_keys
UnsortedJson(obj) == [i \in 1..Len(obj) |-> JsonItem(obj[i])]

\* json.dumps(obj, sort_keys=True): the text is modelled by the sorted items
\* it lists; json.loads of that text is the dict holding those items.
_stable_json(obj) == SortByKey(obj)

\* sha256 of tool_name + ":" + _stable_json(args), modelled by its preimage
make_cache_key(tool_name, args) ==
    [tool_name |-> tool_name, args_json |-> _stable_json(args)]

\* ------------------------------------------------------------------- tools
SUMMARIZE == "summarize_text_local"
LOOKUP == "lookup"
UNREGISTERED == "nope"

\* ToolRegistry._tools: summarize_text_local and one arbitrary registered tool
RegisteredTools == {SUMMARIZE, LOOKUP}

Outcome(kind, data, exc, msg) == [kind |-> kind, data |-> data, exc |-> exc, msg |-> msg]
Returns(data) == Outcome("dict", data, "", "")
ReturnsNonDict == Outcome("nondict", <<>>, "", "")
Raises(exc, msg) == Outcome("raise", <<>>, exc, msg)

RECURSIVE Join(_, _)
Join(pieces, sep) ==
    IF pieces = <<>> THEN <<>>
    ELSE IF Len(pieces) = 1 THEN pieces[1]
    ELSE pieces[1] \o sep \o Join(Tail(pieces), sep)

Min(a, b) == IF a < b THEN a ELSE b

StripAll(pieces) == [i \in 1..Len(pieces) |-> Strip(pieces[i])]

DigitValue(d) == CASE d = <<"1">> -> 1 [] d = <<"2">> -> 2 [] d = <<"5">> -> 5 [] OTHER -> 0

\* summarize_text_local(text, max_sentences=2), called as fn(**args)
summarize_text_local(args) ==
    IF \/ ~(DictKeys(args) \subseteq {"text", "max_sentences"})
       \/ "text" \notin DictKeys(args)
    THEN Raises("TypeError", "summarize_text_local() got an unexpected or missing argument")
    ELSE
      LET text == DictGet(args, "text")
          max_arg == DictGet(args, "max_sentences")
          max_sentences == IF "max_sentences" \in DictKeys(args)
                           THEN DigitValue(max_arg.s) ELSE 2
      IN  IF text.t # "str"
          THEN Raises("AttributeError", "object has no attribute 'replace'")
          ELSE IF "max_sentences" \in DictKeys(args) /\ max_arg.t # "int"
          THEN Raises("TypeError", "slice indices must be integers")
          ELSE
            LET sentences == StripAll(NonBlankOnly(Split(Replace(text.s, "\n", " "), ".")))
                joined == Join(SubSeq(sentences, 1, Min(max_sentences, Len(sentences))),
                               <<".", " ">>)
                summary == IF joined # <<>> /\ joined[Len(joined)] # "."
                           THEN Append(joined, ".") ELSE joined
                key_points == SubSeq(sentences, 1, Min(5, Len(sentences)))
            IN  Returns(<<Item("summary", StrV(summary)),
                          Item("key_points",
                               ListV([i \in 1..Len(key_points) |-> StrV(key_points[i])]))>>)

\* What the arbitrary registered tool may do when called
GoodData ==
    <<Item("summary", StrV(<<"o", "k", ".">>)),
      Item("key_points", ListV(<<StrV(C("p")), StrV(C("q"))>>))>>
PoorData ==
    <<Item("key_points", ListV(<<StrV(C("p")), StrV(C("q"))>>)),
      Item("summary", StrV(C(" ")))>>
TupleData ==
    <<Item("summary", StrV(<<"o", "k", ".">>)),
      Item("key_points", TupleV(<<StrV(C("p")), StrV(C("q"))>>))>>
IntKeyData == <<IntKeyItem("1", StrV(C("v")))>>

LookupOutcomes ==
    {Returns(GoodData), Returns(PoorData), Returns(TupleData), Returns(IntKeyData),
     ReturnsNonDict,
     Raises("TypeError", "unsupported operand"),
     Raises("ValueError", "boom")}

\* The outcomes fn(**args) can have for a registered tool
ToolOutcomes(tool_name, args) ==
    IF tool_name = SUMMARIZE THEN {summarize_text_local(args)} ELSE LookupOutcomes

\* --------------------------------------------------------------- tool cache
\* The tool_cache table: rows [cache_key, result_json], cache_key the primary key
EmptyCache == {}

Row(cache_key, result_json) == [cache_key |-> cache_key, result_json |-> result_json]

CacheKeys(c) == {row.cache_key : row \in c}

CacheValue(c, cache_key) == (CHOOSE row \in c : row.cache_key = cache_key).result_json

\* A mutant of get_cached_tool_result: no row is ever found
NeverCached(c, tool_name, args, read_ok) ==
    [raised |-> ~read_ok, found |-> FALSE, data |-> <<>>]

\* get_cached_tool_result: raised (the store failed), else the row's
\* result_json read back with json.loads, or None
get_cached_tool_result(c, tool_name, args, read_ok) ==
    LET cache_key == make_cache_key(tool_name, args)
    IN  IF ~read_ok THEN [raised |-> TRUE, found |-> FALSE, data |-> <<>>]
        ELSE IF cache_key \in CacheKeys(c)
        THEN [raised |-> FALSE, found |-> TRUE, data |-> CacheValue(c, cache_key)]
        ELSE [raised |-> FALSE, found |-> FALSE, data |-> <<>>]

\* A mutant of set_cached_tool_result: the row is added and the row already
\* under cache_key stays
AddCachedToolResult(c, tool_name, args, result, write_ok) ==
    IF ~write_ok THEN c
    ELSE c \cup {Row(make_cache_key(tool_name, args), _stable_json(result))}

\* set_cached_tool_result: INSERT OR REPLACE of the row under cache_key;
\* nothing is stored when the store fails
set_cached_tool_result(c, tool_name, args, result, write_ok) ==
    LET cache_key == make_cache_key(tool_name, args)
    IN  IF ~write_ok THEN c
        ELSE {row \in c : row.cache_key # cache_key}
             \cup {Row(cache_key, _stable_json(result))}

\* ------------------------------------------------------------- tool router
NoError == <<>>

ToolResult(tool_name, ok, data, error) ==
    [tool_name |-> tool_name, ok |-> ok, data |-> data, error |-> error]

\* pydantic rejects a data dict with a key that is not a str
ValidToolData(data) == \A i \in 1..Len(data) : data[i].kt = "str"

Env(read_ok, write_ok, outcome) ==
    [read_ok |-> read_ok, write_ok |-> write_ok, outcome |-> outcome]

NotCalled == Outcome("not called", <<>>, "", "")

\* What a call of run did: its ToolResult, or the exception that left it
\* (propagated), the cache afterwards, the events it logged, whether it
\* called get_cached_tool_result, set_cached_tool_result and the tool
\* function, and what the tool function did
RunReturn(result, propagated, c, events, cache_read, cache_write, invoked, outcome) ==
    [result |-> result, propagated |-> propagated, cache |-> c, events |-> events,
     cache_read |-> cache_read, cache_write |-> cache_write, invoked |-> invoked,
     outcome |-> outcome]

\* A mutant of UnknownTool: the failed result carries no error
UnknownToolWithoutError(c, tool_name) ==
    RunReturn(ToolResult(tool_name, FALSE, <<>>, NoError), "", c, <<>>,
              FALSE, FALSE, FALSE, NotCalled)

\* Lines 38-39: a tool that is not registered
UnknownTool(c, tool_name) ==
    RunReturn(ToolResult(tool_name, FALSE, <<>>, <<"Unknown tool">>), "", c, <<>>,
              FALSE, FALSE, FALSE, NotCalled)

\* The events of the cache lookup (lines 42-56)
LookupEvents(cached) ==
    IF cached.raised THEN <<"tool_cache_error", "tool_cache_miss">>
    ELSE IF cached.found THEN <<"tool_cache_hit">>
    ELSE <<"tool_cache_miss">>

WriteEvents(env) == IF env.write_ok THEN <<>> ELSE <<"tool_cache_write_error">>

\* Lines 58-89 with the tool function doing `out`: the result of a miss
AfterMiss(c, tool_name, args, env, events) ==
    LET out == env.outcome
        written == set_cached_tool_result(c, tool_name, args, out.data, env.write_ok)
    IN  IF out.kind = "raise" /\ out.exc = "TypeError"
        THEN RunReturn(ToolResult(tool_name, FALSE, <<>>, <<"Bad tool args: ", out.msg>>),
                       "", c, events, TRUE, FALSE, TRUE, out)
        ELSE IF out.kind = "raise"
        THEN RunReturn(ToolResult(tool_name, FALSE, <<>>,
                                  <<"Tool error: ", out.exc, ": ", out.msg>>),
                       "", c, events, TRUE, FALSE, TRUE, out)
        ELSE IF out.kind = "nondict"
        THEN RunReturn(ToolResult(tool_name, FALSE, <<>>,
                                  <<"Tool returned non-dict output">>),
                       "", c, events, TRUE, FALSE, TRUE, out)
        ELSE IF ~ValidToolData(out.data)
        THEN RunReturn(ToolResult(tool_name, FALSE, <<>>,
                                  <<"Tool error: ", "ValidationError", ": ",
                                    "data keys should be valid strings">>),
                       "", written, events \o WriteEvents(env), TRUE, TRUE, TRUE, out)
        ELSE RunReturn(ToolResult(tool_name, TRUE, out.data, NoError),
                       "", written, events \o WriteEvents(env), TRUE, TRUE, TRUE, out)

\* A mutant of ToolRegistry_run: the allowlist test comes after the cache lookup
RunLookingUpFirst(c, req, env) ==
    LET cached == get_cached_tool_result(c, req.tool_name, req.args, env.read_ok)
    IN  IF ~cached.raised /\ cached.found
        THEN RunReturn(ToolResult(req.tool_name, TRUE, cached.data, NoError), "", c,
                       LookupEvents(cached), TRUE, FALSE, FALSE, NotCalled)
        ELSE IF req.tool_name \notin RegisteredTools
        THEN RunReturn(ToolResult(req.tool_name, FALSE, <<>>, <<"Unknown tool">>), "", c,
                       LookupEvents(cached), TRUE, FALSE, FALSE, NotCalled)
        ELSE AfterMiss(c, req.tool_name, req.args, env, LookupEvents(cached))

\* A mutant of ToolRegistry_run: the handler `except Exception` is missing,
\* so only TypeError is caught
RunCatchingOnlyTypeError(c, req, env) ==
    LET cached == get_cached_tool_result(c, req.tool_name, req.args, env.read_ok)
        out == env.outcome
    IN  IF req.tool_name \notin RegisteredTools
        THEN UnknownTool(c, req.tool_name)
        ELSE IF ~cached.raised /\ cached.found
        THEN RunReturn(ToolResult(req.tool_name, TRUE, cached.data, NoError), "", c,
                       LookupEvents(cached), TRUE, FALSE, FALSE, NotCalled)
        ELSE IF out.kind = "raise" /\ out.exc # "TypeError"
        THEN RunReturn(ToolResult(req.tool_name, FALSE, <<>>, NoError), out.exc, c,
                       LookupEvents(cached), TRUE, FALSE, TRUE, out)
        ELSE AfterMiss(c, req.tool_name, req.args, env, LookupEvents(cached))

\* A mutant of ToolRegistry_run: a cache read that raises fails the call
RunFailingOnCacheError(c, req, env) ==
    LET cached == get_cached_tool_result(c, req.tool_name, req.args, env.read_ok)
    IN  IF req.tool_name \notin RegisteredTools
        THEN UnknownTool(c, req.tool_name)
        ELSE IF cached.raised
        THEN RunReturn(ToolResult(req.tool_name, FALSE, <<>>, <<"Cache error">>), "", c,
                       <<"tool_cache_error">>, TRUE, FALSE, FALSE, NotCalled)
        ELSE IF cached.found
        THEN RunReturn(ToolResult(req.tool_name, TRUE, cached.data, NoError), "", c,
                       LookupEvents(cached), TRUE, FALSE, FALSE, NotCalled)
        ELSE AfterMiss(c, req.tool_name, req.args, env, LookupEvents(cached))

\* ToolRegistry.run(req), with the cache c, under the environment env: whether
\* the cache read and write succeed and what the tool function does if called
ToolRegistry_run(c, req, env) ==
    LET tool_name == req.tool_name
        args == req.args
        cached == get_cached_tool_result(c, tool_name, args, env.read_ok)
    IN  IF tool_name \notin RegisteredTools
        THEN UnknownTool(c, tool_name)
        ELSE IF ~cached.raised /\ cached.found
        THEN RunReturn(ToolResult(tool_name, TRUE, cached.data, NoError), "", c,
                       LookupEvents(cached), TRUE, FALSE, FALSE, NotCalled)
        ELSE AfterMiss(c, tool_name, args, env, LookupEvents(cached))

\* The environments a call can meet; the cache write can only fail where the
\* tool function returns a dict, as there is no write otherwise
Envs(req) ==
    IF req.tool_name \notin RegisteredTools
    THEN {Env(TRUE, TRUE, ReturnsNonDict)}
    ELSE {e \in {Env(r, w, o) : r \in BOOLEAN, w \in BOOLEAN,
                                o \in ToolOutcomes(req.tool_name, req.args)} :
            e.outcome.kind = "dict" \/ e.write_ok}

\* ------------------------------------------------------------------ memory
\* str.split() without arguments: the runs of characters between whitespace
RECURSIVE SplitWhiteAcc(_, _)
SplitWhiteAcc(s, cur) ==
    LET piece == IF cur = <<>> THEN <<>> ELSE <<cur>>
    IN  IF s = <<>> THEN piece
        ELSE IF Head(s) \in WhiteSpace THEN piece \o SplitWhiteAcc(Tail(s), <<>>)
        ELSE SplitWhiteAcc(Tail(s), Append(cur, Head(s)))

SplitWhite(s) == SplitWhiteAcc(s, <<>>)

\* A mutant of _tok: the text is not lower-cased
TokKeepingCase(s) == {SplitWhite(s)[i] : i \in 1..Len(SplitWhite(s))}

\* set((s or "").lower().split())
_tok(s) == {SplitWhite(Lower(s))[i] : i \in 1..Len(SplitWhite(Lower(s)))}

RECURSIVE Gcd(_, _)
Gcd(m, n) == IF n = 0 THEN m ELSE Gcd(n, m % n)

\* The float n / d (d > 0), kept as a fraction in lowest terms
Quotient(n, d) == [num |-> n \div Gcd(n, d), den |-> d \div Gcd(n, d)]

\* jaccard(a, b)
jaccard(a, b) ==
    LET sa == _tok(a)
        sb == _tok(b)
    IN  IF sa = {} /\ sb = {} THEN Quotient(1, 1)
        ELSE IF sa = {} \/ sb = {} THEN Quotient(0, 1)
        ELSE Quotient(Cardinality(sa \cap sb), Cardinality(sa \cup sb))

\* A row of the runs table, as far as memory retrieval reads it
StoredRun(run_id, obj) == [run_id |-> run_id, objective |-> obj]

\* list_runs(limit) on a table given most recent first: ORDER BY created_ts
\* DESC LIMIT ?, where SQLite takes a negative limit as no limit
list_runs(table, limit) ==
    IF limit < 0 THEN table ELSE SubSeq(table, 1, Min(limit, Len(table)))

\* load_run(run_id): the row of that id
load_run(table, run_id) ==
    LET i == CHOOSE n \in 1..Len(table) : table[n].run_id = run_id
    IN  table[i]

\* x < y for two floats
FloatLess(x, y) == x.num * y.den < y.num * x.den

\* A mutant of InsertByScore: an entry goes before the entries of equal score
InsertBeforeEqual(entry, sorted) ==
    LET before == {i \in 1..Len(sorted) : FloatLess(entry.score, sorted[i].score)}
    IN  SubSeq(sorted, 1, Cardinality(before)) \o <<entry>>
        \o SubSeq(sorted, Cardinality(before) + 1, Len(sorted))

\* Where a stable descending sort puts an entry that comes after the entries
\* already sorted: behind every entry whose score is not lower
InsertByScore(entry, sorted) ==
    LET before == {i \in 1..Len(sorted) : ~FloatLess(sorted[i].score, entry.score)}
    IN  SubSeq(sorted, 1, Cardinality(before)) \o <<entry>>
        \o SubSeq(sorted, Cardinality(before) + 1, Len(sorted))

\* scored.sort(reverse=True, key=lambda x: x[0]); list.sort is stable, also
\* with reverse=True
RECURSIVE SortByScore(_)
SortByScore(scored) ==
    IF scored = <<>> THEN <<>>
    ELSE InsertByScore(scored[Len(scored)],
                       SortByScore(SubSeq(scored, 1, Len(scored) - 1)))

\* seq[:k]
SliceTo(seq, k) ==
    IF k >= 0 THEN SubSeq(seq, 1, Min(k, Len(seq)))
    ELSE SubSeq(seq, 1, IF Len(seq) + k > 0 THEN Len(seq) + k ELSE 0)

\* find_relevant_runs(objective, k=k, scan_limit=scan_limit)
find_relevant_runs(table, obj, k, scan_limit) ==
    LET candidates == list_runs(table, scan_limit)
        scored == SortByScore([i \in 1..Len(candidates) |->
                                  [score |-> jaccard(obj, candidates[i].objective),
                                   run_id |-> candidates[i].run_id]])
        top == SliceTo(scored, k)
    IN  [i \in 1..Len(top) |->
            [run_id |-> top[i].run_id, similarity |-> top[i].score,
             objective |-> load_run(table, top[i].run_id).objective]]

\* The text "(none)"
NoMemories == <<"(none)">>

\* format_memories(memories): "(none)", or one line for each memory
format_memories(memories) ==
    IF memories = <<>> THEN NoMemories
    ELSE [i \in 1..Len(memories) |->
            [run_id |-> memories[i].run_id, sim |-> memories[i].similarity,
             objective |-> memories[i].objective]]

\* A mutant of PromptMemories: the memory context is given to every prompt
PromptMemoriesAlways(n, text) == text

\* memories="(none)" if iteration == 1 else memories_text
PromptMemories(n, text) == IF n = 1 THEN NoMemories ELSE text

\* ------------------------------------------------------------------- state
VARIABLES
    pc,                  \* where run_agent_loop is
    objective,           \* the objective of the run
    max_iterations,      \* its max_iterations argument
    dry_run,             \* its dry_run argument
    iteration,           \* iterations started so far (the for-loop variable)
    plan,                \* plan.steps of the current iteration
    executed_steps,      \* execute_plan's executed_steps
    notes,               \* state.notes
    last_tool_results,   \* state.last_tool_results
    executed_steps_log,  \* executed_steps_log
    final_answer,        \* final_answer
    done_check,          \* the DoneCheck of the latest check
    result,              \* the AgentRunResult built or returned
    raised,              \* the exception that left run_agent_loop, or ""
    cache,               \* the tool_cache table
    runs,                \* the rows save_run has written to the runs table
    plan_requests,       \* calls of client.generate_structured so far
    router_calls,        \* the steps execute_plan handed to registry.run, in order
    router_log,          \* the latest two direct calls of ToolRegistry.run, in full
    router_count,        \* direct calls of ToolRegistry.run so far
    save_calls,          \* calls of save_run so far
    overall_ok,          \* execute_plan's overall_ok
    memories_text,       \* memories_text, the memory context of the run
    retrievals,          \* calls of find_relevant_runs by the run so far
    prompt_memories,     \* the memories argument of each replanner prompt, in order
    dc_pc,               \* a direct call of deterministic_done_check: its position,
    dc_objective,        \*   its objective argument,
    dc_result,           \*   its latest_tool_result argument
    dc_out,              \*   and the DoneCheck it returned
    gs_pc,               \* where generate_structured is
    max_attempts,        \* self.max_attempts
    repair_enabled,      \* self.repair_enabled
    base_backoff_seconds, \* self.base_backoff_seconds
    attempt,             \* the for-loop variable of generate_structured
    raw_output,          \* raw_output
    last_error,          \* last_error
    gs_returned,         \* the value generate_structured returned
    gs_raised,           \* the exception that left it, with its cause
    events,              \* the events logged so far, in order
    outputs,             \* what each call of self.generate did, in order
    jac_pc,              \* a direct call of jaccard: its position,
    jac_a,               \*   its argument a,
    jac_b,               \*   its argument b
    jac_out,             \*   and the float it returned
    mem_pc,              \* a direct call of find_relevant_runs: its position,
    mem_table,           \*   the runs table, most recent run first,
    mem_objective,       \*   its objective argument,
    mem_k,               \*   its k argument,
    mem_scan_limit,      \*   its scan_limit argument
    mem_out,             \*   and the list it returned
    race_req,            \* two concurrent calls of ToolRegistry.run: their request,
    race_pc,             \*   where each call is,
    race_events,         \*   the events each call logged in its cache lookup
    race_ret             \*   and what each call did, once it has returned

loop_vars ==
    <<pc, objective, max_iterations, dry_run, iteration, plan, executed_steps, notes,
      last_tool_results, executed_steps_log, final_answer, done_check, result, raised,
      runs, plan_requests, router_calls, save_calls, overall_ok, memories_text,
      retrievals, prompt_memories>>

router_vars == <<cache, router_log, router_count>>

dc_vars == <<dc_pc, dc_objective, dc_result, dc_out>>

gs_vars ==
    <<gs_pc, max_attempts, repair_enabled, base_backoff_seconds, attempt, raw_output,
      last_error, gs_returned, gs_raised, events, outputs>>

jac_vars == <<jac_pc, jac_a, jac_b, jac_out>>

mem_vars == <<mem_pc, mem_table, mem_objective, mem_k, mem_scan_limit, mem_out>>

race_vars == <<race_req, race_pc, race_events, race_ret>>

vars == <<loop_vars, router_vars, dc_vars, gs_vars, jac_vars, mem_vars, race_vars>>

\* ------------------------------------------------------------ loop records
PlanStep(step_id, tool_name, args) ==
    [step_id |-> step_id, tool_name |-> tool_name, args |-> args]

StepExecution(step_id, tool_name, ok, data, error) ==
    [step_id |-> step_id, tool_name |-> tool_name, ok |-> ok, data |-> data,
     error |-> error]

Note(text, step_id, tool_name, error) ==
    [text |-> text, step_id |-> step_id, tool_name |-> tool_name, error |-> error]

Answer(msg, summary, key_points) ==
    [msg |-> msg, summary |-> summary, key_points |-> key_points, got |-> 0]

NoAnswer == Answer("None", <<>>, <<>>)

AgentRunResult(ok, iterations, answer) ==
    [ok |-> ok, iterations |-> iterations, final_answer |-> answer]

NoRunResult == [ok |-> FALSE, iterations |-> 0 - 1, final_answer |-> NoAnswer]

NoDoneCheck == NotDone("(no check yet)", 0)

\* One record of router_log
RouterCall(req, ret, before) ==
    [tool_name |-> req.tool_name, args |-> req.args, result |-> ret.result,
     propagated |-> ret.propagated, events |-> ret.events,
     cache_read |-> ret.cache_read, cache_write |-> ret.cache_write,
     invoked |-> ret.invoked, outcome |-> ret.outcome,
     cache_before |-> before, cache_after |-> ret.cache]

\* One record of router_calls
RoutedStep(step, ret) ==
    [step |-> step, ok |-> ret.result.ok, invoked |-> ret.invoked]

\* objective.split(":", 1)[1].strip() if ":" in objective else objective
objective_payload(obj) ==
    IF \E i \in 1..Len(obj) : obj[i] = ":" THEN Strip(AfterFirst(obj, ":")) ELSE obj

\* ---------------------------------------------------------- planner outputs
ArgsAB == <<Item("a", NumV(C("1"))), Item("b", NumV(C("2")))>>
ArgsBA == <<Item("b", NumV(C("2"))), Item("a", NumV(C("1")))>>
ArgsText == <<Item("text", StrV(C("z")))>>
ArgsExtra == <<Item("extra", NumV(C("1"))), Item("text", StrV(C("z")))>>

PlanEmpty == <<>>
PlanSummarize == <<PlanStep(1, SUMMARIZE, ArgsText)>>
PlanBadArgs == <<PlanStep(1, SUMMARIZE, ArgsExtra)>>
PlanLookupThenSummarize == <<PlanStep(1, LOOKUP, ArgsAB), PlanStep(2, SUMMARIZE, <<>>)>>
PlanUnknownSecond ==
    <<PlanStep(1, LOOKUP, ArgsBA), PlanStep(2, UNREGISTERED, <<>>),
      PlanStep(3, SUMMARIZE, ArgsText)>>
PlanLookup == <<PlanStep(1, LOOKUP, ArgsBA)>>

\* The plans client.generate_structured(prompt, Plan) may return
Plans ==
    {PlanEmpty, PlanSummarize, PlanBadArgs, PlanLookupThenSummarize, PlanUnknownSecond,
     PlanLookup}

\* ------------------------------------------------------------ run_agent_loop
\* The tool outcomes and cache conditions a step of a run can meet
LoopLookupOutcomes == {Returns(GoodData), Returns(PoorData), Raises("ValueError", "boom")}

LoopEnvs(req) ==
    IF req.tool_name \notin RegisteredTools THEN {Env(TRUE, TRUE, ReturnsNonDict)}
    ELSE {Env(r, w, o) : r \in BOOLEAN, w \in BOOLEAN,
                           o \in IF req.tool_name = SUMMARIZE
                                 THEN ToolOutcomes(req.tool_name, req.args)
                                 ELSE LoopLookupOutcomes}

\* The keyword arguments run_agent_loop passes to save_run
SaveRunKeywords ==
    {"run_id", "objective", "ok", "iterations", "final_answer", "state", "steps",
     "total_tokens", "total_cost", "memory_used"}

\* The parameters save_run declares (all keyword-only, no **kwargs)
SaveRunParameters ==
    {"run_id", "objective", "ok", "iterations", "final_answer", "state", "steps",
     "total_tokens", "total_cost"}

RunRecord(res, st_notes, st_results, steps) ==
    [run_id |-> "run", objective |-> objective, ok |-> res.ok,
     iterations |-> res.iterations, final_answer |-> res.final_answer,
     notes |-> st_notes, last_tool_results |-> st_results, steps |-> steps]

\* A mutant of EnforcePayload: max_sentences is left as the planner gave it
OverrideTextOnly(steps, payload) ==
    [i \in 1..Len(steps) |->
        IF steps[i].tool_name = SUMMARIZE
        THEN [steps[i] EXCEPT !.args = DictSet(@, "text", StrV(payload))]
        ELSE steps[i]]

\* A mutant of EnforcePayload: the text is left as the planner gave it
OverrideSentencesOnly(steps, payload) ==
    [i \in 1..Len(steps) |->
        IF steps[i].tool_name = SUMMARIZE
        THEN [steps[i] EXCEPT !.args = DictSet(@, "max_sentences", NumV(C("2")))]
        ELSE steps[i]]

\* step.args["text"] = objective_payload; step.args["max_sentences"] = 2
EnforcePayload(steps, payload) ==
    [i \in 1..Len(steps) |->
        IF steps[i].tool_name = SUMMARIZE
        THEN [steps[i] EXCEPT
                !.args = DictSet(DictSet(@, "text", StrV(payload)),
                                 "max_sentences", NumV(C("2")))]
        ELSE steps[i]]

PayloadMismatch(steps, payload) ==
    \E i \in 1..Len(steps) :
        steps[i].tool_name = SUMMARIZE /\ DictGet(steps[i].args, "text") # StrV(payload)

\* Lines 73-103: run id, migrate_db(), the payload, the empty state, the one
\* memory retrieval find_relevant_runs(objective, k=3, scan_limit=50).
\* migrate_db is not defined in infra/storage.py; it is taken to leave the
\* modelled tables as they are.
StartRun ==
    /\ pc = "start"
    /\ pc' = "for"
    /\ UNCHANGED <<overall_ok, objective, max_iterations, dry_run, iteration, plan, executed_steps,
                   notes, last_tool_results, executed_steps_log, final_answer,
                   done_check, result, raised, runs, plan_requests, router_calls, save_calls>>
    /\ UNCHANGED <<router_vars, dc_vars, gs_vars, jac_vars, race_vars>>
    /\ retrievals' = retrievals + 1
    /\ mem_objective' = objective
    /\ mem_k' = 3
    /\ mem_scan_limit' = 50
    /\ mem_out' = find_relevant_runs(mem_table, objective, 3, 50)
    /\ mem_pc' = "returned"
    /\ memories_text' = format_memories(mem_out')
    /\ UNCHANGED <<mem_table, prompt_memories>>

\* for iteration in range(1, max_iterations + 1): the next iteration starts
NextIteration ==
    /\ pc = "for"
    /\ iteration < max_iterations
    /\ iteration' = iteration + 1
    /\ pc' = "plan"
    /\ UNCHANGED <<overall_ok, objective, max_iterations, dry_run, plan, executed_steps, notes,
                   last_tool_results, executed_steps_log, final_answer, done_check,
                   result, raised, runs, plan_requests, router_calls, save_calls>>
    /\ UNCHANGED <<router_vars, dc_vars, gs_vars, jac_vars, mem_vars, race_vars>>
    /\ UNCHANGED <<memories_text, retrievals, prompt_memories>>

\* The for loop is exhausted: the failure result is built (lines 247-255)
Exhausted ==
    /\ pc = "for"
    /\ iteration >= max_iterations
    /\ result' = AgentRunResult(FALSE, max_iterations, final_answer)
    /\ pc' = "save"
    /\ UNCHANGED <<overall_ok, objective, max_iterations, dry_run, iteration, plan, executed_steps,
                   notes, last_tool_results, executed_steps_log, final_answer,
                   done_check, raised, runs, plan_requests, router_calls, save_calls>>
    /\ UNCHANGED <<router_vars, dc_vars, gs_vars, jac_vars, mem_vars, race_vars>>
    /\ UNCHANGED <<memories_text, retrievals, prompt_memories>>

\* plan = client.generate_structured(replanner_prompt, Plan) returns a plan
RequestPlanAmong(plans) ==
    /\ pc = "plan"
    /\ \E p \in plans : plan' = p
    /\ plan_requests' = plan_requests + 1
    /\ pc' = "guard"
    /\ UNCHANGED <<overall_ok, objective, max_iterations, dry_run, iteration, executed_steps, notes,
                   last_tool_results, executed_steps_log, final_answer, done_check,
                   result, raised, runs, router_calls, save_calls>>
    /\ UNCHANGED <<router_vars, dc_vars, gs_vars, jac_vars, mem_vars, race_vars>>
    /\ prompt_memories' = Append(prompt_memories, PromptMemories(iteration, memories_text))
    /\ UNCHANGED <<memories_text, retrievals>>

RequestPlan == RequestPlanAmong(Plans)

\* A mutant of PlanRequestFails: the run is saved before the error goes on
\* to the caller
PlanRequestFailsAfterSaving ==
    /\ pc = "plan"
    /\ plan_requests' = plan_requests + 1
    /\ raised' = "RuntimeError: LLM failed after max_attempts attempts"
    /\ pc' = "raised"
    /\ save_calls' = save_calls + 1
    /\ UNCHANGED <<overall_ok, objective, max_iterations, dry_run, iteration, plan, executed_steps,
                   notes, last_tool_results, executed_steps_log, final_answer,
                   done_check, result, runs, router_calls>>
    /\ UNCHANGED <<router_vars, dc_vars, gs_vars, jac_vars, mem_vars, race_vars>>
    /\ prompt_memories' = Append(prompt_memories, PromptMemories(iteration, memories_text))
    /\ UNCHANGED <<memories_text, retrievals>>

\* client.generate_structured exhausts its attempts and raises
PlanRequestFails ==
    /\ pc = "plan"
    /\ plan_requests' = plan_requests + 1
    /\ raised' = "RuntimeError: LLM failed after max_attempts attempts"
    /\ pc' = "raised"
    /\ UNCHANGED <<overall_ok, objective, max_iterations, dry_run, iteration, plan, executed_steps,
                   notes, last_tool_results, executed_steps_log, final_answer,
                   done_check, result, runs, router_calls, save_calls>>
    /\ UNCHANGED <<router_vars, dc_vars, gs_vars, jac_vars, mem_vars, race_vars>>
    /\ prompt_memories' = Append(prompt_memories, PromptMemories(iteration, memories_text))
    /\ UNCHANGED <<memories_text, retrievals>>

\* A mutant of AfterEmptyPlan: the `continue` is missing, so the iteration
\* goes on to its done-check
EmptyPlanFallsThrough == "check"

\* continue (line 140): back to the for statement
AfterEmptyPlan == "for"

\* A mutant of DryRun: the dry_run flag is ignored
DryRunIgnored(flag) == FALSE

\* if dry_run: (lines 131 and 156)
DryRun(flag) == flag

\* Lines 128-166: the empty-plan branch, the payload override and its strict
\* check, the dry-run exits
GuardPlan ==
    /\ pc = "guard"
    /\ LET payload == objective_payload(objective)
           enforced == EnforcePayload(plan, payload)
       IN  IF plan = <<>>
           THEN /\ notes' = Append(notes, Note("Planner returned empty steps.", 0, "", <<>>))
                /\ IF DryRun(dry_run)
                   THEN /\ result' = AgentRunResult(FALSE, iteration,
                                       Answer("[DRY RUN] Empty plan generated.", <<>>, <<>>))
                        /\ pc' = "returned"
                   ELSE /\ pc' = AfterEmptyPlan
                        /\ UNCHANGED result
                /\ UNCHANGED <<plan, executed_steps, raised, overall_ok>>
           ELSE IF PayloadMismatch(enforced, payload)
           THEN /\ raised' = "RuntimeError: Planner violated objective payload constraint"
                /\ pc' = "raised"
                /\ plan' = enforced
                /\ UNCHANGED <<notes, executed_steps, result, overall_ok>>
           ELSE IF DryRun(dry_run)
           THEN /\ result' = AgentRunResult(TRUE, iteration,
                                            Answer("[DRY RUN] Plan", <<>>, <<>>))
                /\ pc' = "returned"
                /\ plan' = enforced
                /\ UNCHANGED <<notes, executed_steps, raised, overall_ok>>
           ELSE /\ plan' = enforced
                /\ executed_steps' = <<>>
                /\ overall_ok' = TRUE
                /\ pc' = "execute"
                /\ UNCHANGED <<notes, result, raised>>
    /\ UNCHANGED <<objective, max_iterations, dry_run, iteration, last_tool_results,
                   executed_steps_log, final_answer, done_check, runs, plan_requests,
                   router_calls, save_calls>>
    /\ UNCHANGED <<router_vars, dc_vars, gs_vars, jac_vars, mem_vars, race_vars>>
    /\ UNCHANGED <<memories_text, retrievals, prompt_memories>>

\* A mutant of StopsAfter: no fail-fast break
StopsOnlyAtEnd(steps, done_steps, step_exec) ==
    Len(done_steps) + 1 = Len(steps)

\* Whether execute_plan stops after this StepExecution: it breaks at the
\* first step that is not ok and ends after the last step
StopsAfter(steps, done_steps, step_exec) ==
    ~step_exec.ok \/ Len(done_steps) + 1 = Len(steps)

\* A mutant of OverallOk: overall_ok is never cleared
OverallOkKept(so_far, step_exec) == so_far

\* if not result.ok: overall_ok = False
OverallOk(so_far, step_exec) == so_far /\ step_exec.ok

\* A mutant of NextStep: the steps are taken from the end of the plan
LastStepFirst(steps, done_steps) == steps[Len(steps) - Len(done_steps)]

\* for step in plan.steps: the step of this turn
NextStep(steps, done_steps) == steps[Len(done_steps) + 1]

\* execute_plan, one turn of its for loop: registry.run(step), the
\* StepExecution appended, the fail-fast break
ExecuteStepUnder(cache_outcomes) ==
    /\ pc = "execute"
    /\ LET step == NextStep(plan, executed_steps)
       IN  \E env \in {e \in LoopEnvs(step) : /\ e.read_ok \in cache_outcomes
                                              /\ e.write_ok \in cache_outcomes} :
             LET ret == ToolRegistry_run(cache, step, env)
                 step_exec == StepExecution(step.step_id, step.tool_name, ret.result.ok,
                                            ret.result.data, ret.result.error)
             IN  /\ cache' = ret.cache
                 /\ router_calls' = Append(router_calls, RoutedStep(step, ret))
                 /\ IF ret.propagated # ""
                    THEN /\ raised' = ret.propagated
                         /\ pc' = "raised"
                         /\ UNCHANGED <<executed_steps, overall_ok>>
                    ELSE /\ executed_steps' = Append(executed_steps, step_exec)
                         /\ overall_ok' = OverallOk(overall_ok, step_exec)
                         /\ pc' = IF StopsAfter(plan, executed_steps, step_exec)
                                  THEN "observe" ELSE "execute"
                         /\ UNCHANGED raised
    /\ UNCHANGED <<objective, max_iterations, dry_run, iteration, plan, notes,
                   last_tool_results, executed_steps_log, final_answer, done_check,
                   result, runs, plan_requests, save_calls>>
    /\ UNCHANGED <<router_log, router_count, dc_vars, gs_vars, jac_vars, mem_vars, race_vars>>
    /\ UNCHANGED <<memories_text, retrievals, prompt_memories>>

\* The cache lookup and the cache write may each succeed or fail
ExecuteStep == ExecuteStepUnder(BOOLEAN)

ObservedResult(step_exec) ==
    IF step_exec.ok
    THEN ResultEntry("data", step_exec.step_id, step_exec.tool_name, step_exec.data, <<>>)
    ELSE ResultEntry("error", step_exec.step_id, step_exec.tool_name, <<>>,
                     step_exec.error)

ObservedNote(step_exec) ==
    IF step_exec.ok
    THEN Note("succeeded.", step_exec.step_id, step_exec.tool_name, <<>>)
    ELSE Note("failed: ", step_exec.step_id, step_exec.tool_name, step_exec.error)

\* A mutant of Extended: the state is reset to what the iteration observed
StartedAfresh(entries, more) == more

\* A mutant of Extended: the new entries are put in front of the earlier ones
Prepended(entries, more) == more \o entries

\* A mutant of Extended: only the first entry of the iteration is kept
ExtendedByFirst(entries, more) == entries \o SubSeq(more, 1, 1)

\* state.notes.append(...), state.last_tool_results.append(...) for each step
Extended(entries, more) == entries \o more

\* Lines 171-203: the step log extended, the state updated for every
\* StepExecution of the summary
Observe ==
    /\ pc = "observe"
    /\ executed_steps_log' = executed_steps_log \o executed_steps
    /\ last_tool_results' =
          Extended(last_tool_results,
                   [i \in 1..Len(executed_steps) |-> ObservedResult(executed_steps[i])])
    /\ notes' = Extended(notes,
                         [i \in 1..Len(executed_steps) |-> ObservedNote(executed_steps[i])])
    /\ pc' = "check"
    /\ UNCHANGED <<overall_ok, objective, max_iterations, dry_run, iteration, plan, executed_steps,
                   final_answer, done_check, result, raised, runs, plan_requests,
                   router_calls, save_calls>>
    /\ UNCHANGED <<router_vars, dc_vars, gs_vars, jac_vars, mem_vars, race_vars>>
    /\ UNCHANGED <<memories_text, retrievals, prompt_memories>>

\* A mutant of LatestToolResult: the first result of the run, not the last
OldestToolResult(results) == IF results = <<>> THEN NoResult ELSE results[1]

\* state.last_tool_results[-1] if state.last_tool_results else None
LatestToolResult(results) == IF results = <<>> THEN NoResult ELSE results[Len(results)]

\* A mutant of FinalAnswer: the rationale of every check is kept
FinalAnswerOfLastCheck(previous, check) == check.rationale

\* if done_check.done: final_answer = done_check.rationale (lines 220-221)
FinalAnswer(previous, check) == IF check.done THEN check.rationale ELSE previous

\* Lines 205-230: the done-check on the latest tool result; done builds the
\* successful result
Check ==
    /\ pc = "check"
    /\ LET check == deterministic_done_check(objective,
                                             LatestToolResult(last_tool_results))
       IN  /\ done_check' = check
           /\ final_answer' = FinalAnswer(final_answer, check)
           /\ IF check.done
              THEN /\ result' = AgentRunResult(TRUE, iteration, final_answer')
                   /\ pc' = "save"
              ELSE /\ pc' = "for"
                   /\ UNCHANGED result
    /\ UNCHANGED <<overall_ok, objective, max_iterations, dry_run, iteration, plan, executed_steps,
                   notes, last_tool_results, executed_steps_log, raised, runs,
                   plan_requests, router_calls, save_calls>>
    /\ UNCHANGED <<router_vars, dc_vars, gs_vars, jac_vars, mem_vars, race_vars>>
    /\ UNCHANGED <<memories_text, retrievals, prompt_memories>>

\* save_run(run_id=..., ..., memory_used=memory_used), then return result.
\* Python binds the keywords to save_run's parameters before its body runs.
SaveRun ==
    /\ pc = "save"
    /\ save_calls' = save_calls + 1
    /\ IF SaveRunKeywords \subseteq SaveRunParameters
       THEN /\ runs' = {r \in runs : r.run_id # "run"}
                       \cup {RunRecord(result, notes, last_tool_results,
                                       executed_steps_log)}
            /\ pc' = "returned"
            /\ UNCHANGED raised
       ELSE /\ raised' = "TypeError: save_run() got an unexpected keyword argument"
            /\ pc' = "raised"
            /\ UNCHANGED runs
    /\ UNCHANGED <<overall_ok, objective, max_iterations, dry_run, iteration, plan, executed_steps,
                   notes, last_tool_results, executed_steps_log, final_answer,
                   done_check, result, plan_requests, router_calls>>
    /\ UNCHANGED <<router_vars, dc_vars, gs_vars, jac_vars, mem_vars, race_vars>>
    /\ UNCHANGED <<memories_text, retrievals, prompt_memories>>

\* -------------------------------------------------------- specifications
NoValue == <<>>
NoRaise == [exc |-> "", cause |-> ""]

RouterIdle ==
    /\ cache = EmptyCache
    /\ router_log = <<>>
    /\ router_count = 0

\* The two runs that share the tool cache
Procs == {1, 2}

NotReturned == RunReturn(ToolResult("", FALSE, <<>>, NoError), "", EmptyCache, <<>>,
                         FALSE, FALSE, FALSE, NotCalled)

RaceIdle ==
    /\ race_req = PlanStep(1, "", <<>>)
    /\ race_pc = [p \in Procs |-> "idle"]
    /\ race_events = [p \in Procs |-> <<>>]
    /\ race_ret = [p \in Procs |-> NotReturned]

MemIdle ==
    /\ mem_pc = "idle"
    /\ mem_table = <<>>
    /\ mem_objective = <<>>
    /\ mem_k = 0
    /\ mem_scan_limit = 0
    /\ mem_out = <<>>

JacIdle ==
    /\ jac_pc = "idle"
    /\ jac_a = <<>>
    /\ jac_b = <<>>
    /\ jac_out = Quotient(0, 1)

GsIdle ==
    /\ gs_pc = "idle"
    /\ max_attempts = 0
    /\ repair_enabled = FALSE
    /\ base_backoff_seconds = 0
    /\ attempt = 0
    /\ raw_output = ""
    /\ last_error = ""
    /\ gs_returned = NoValue
    /\ gs_raised = NoRaise
    /\ events = <<>>
    /\ outputs = <<>>

DcIdle ==
    /\ dc_pc = "idle"
    /\ dc_objective = <<>>
    /\ dc_result = NoResult
    /\ dc_out = NoDoneCheck

LoopIdle ==
    /\ pc = "idle"
    /\ objective = <<>>
    /\ max_iterations = 0
    /\ dry_run = FALSE
    /\ iteration = 0
    /\ plan = <<>>
    /\ executed_steps = <<>>
    /\ notes = <<>>
    /\ last_tool_results = <<>>
    /\ executed_steps_log = <<>>
    /\ final_answer = NoAnswer
    /\ done_check = NoDoneCheck
    /\ result = NoRunResult
    /\ raised = ""
    /\ runs = {}
    /\ plan_requests = 0
    /\ router_calls = <<>>
    /\ save_calls = 0
    /\ overall_ok = TRUE
    /\ memories_text = NoMemories
    /\ retrievals = 0
    /\ prompt_memories = <<>>

\* The runs table a run may find: empty, or with the rows of two earlier runs
LoopTables ==
    {<<>>, <<StoredRun("r1", <<"x">>), StoredRun("r2", ObjTwoSentence)>>}

\* A call run_agent_loop(client, registry, objective, max_iterations=.., dry_run=..)
Init ==
    /\ RaceIdle
    /\ JacIdle
    /\ mem_pc = "idle"
    /\ mem_table \in LoopTables
    /\ mem_objective = <<>>
    /\ mem_k = 0
    /\ mem_scan_limit = 0
    /\ mem_out = <<>>
    /\ pc = "start"
    /\ objective \in Objectives
    /\ max_iterations \in (0 - 1)..MaxIter
    /\ dry_run \in BOOLEAN
    /\ iteration = 0
    /\ plan = <<>>
    /\ executed_steps = <<>>
    /\ notes = <<>>
    /\ last_tool_results = <<>>
    /\ executed_steps_log = <<>>
    /\ final_answer = NoAnswer
    /\ done_check = NoDoneCheck
    /\ result = NoRunResult
    /\ raised = ""
    /\ runs = {}
    /\ plan_requests = 0
    /\ router_calls = <<>>
    /\ save_calls = 0
    /\ overall_ok = TRUE
    /\ memories_text = NoMemories
    /\ retrievals = 0
    /\ prompt_memories = <<>>
    /\ cache = EmptyCache
    /\ router_log = <<>>
    /\ router_count = 0
    /\ DcIdle
    /\ GsIdle

Next ==
    \/ StartRun
    \/ NextIteration
    \/ Exhausted
    \/ RequestPlan
    \/ PlanRequestFails
    \/ GuardPlan
    \/ ExecuteStep
    \/ Observe
    \/ Check
    \/ SaveRun

Spec == Init /\ [][Next]_vars

\* ------------------------------------- deterministic_done_check called alone
\* "none" stands for an absent key
DcSummaries ==
    {NoneV, NumV(C("1")), StrV(<<>>), StrV(C(" ")), StrV(<<" ", "a", " ">>),
     StrV(<<"a", ".">>), StrV(<<"a", "!", "b", "?", "c">>),
     StrV(<<"a", ".", "b", "?", "c", "!", "d">>), StrV(<<".", " ", ".">>)}

DcKeyPoints ==
    {NoneV, StrV(<<"x", "y">>), TupleV(<<StrV(C("x")), StrV(C("y"))>>), ListV(<<>>),
     ListV(<<StrV(C("x"))>>), ListV(<<StrV(C("x")), StrV(C(" "))>>),
     ListV(<<StrV(C("x")), NumV(C("2")), StrV(<<" ", "y">>)>>)}

DcData(summary, key_points) ==
    (IF summary = NoneV THEN <<>> ELSE <<Item("summary", summary)>>)
    \o (IF key_points = NoneV THEN <<>> ELSE <<Item("key_points", key_points)>>)

DcResults ==
    {NoResult, EmptyResult,
     ResultEntry("error", 1, LOOKUP, <<>>, <<"Unknown tool">>)}
    \cup {ResultEntry("data", 1, LOOKUP, DcData(sm, kp), <<>>) :
            sm \in DcSummaries, kp \in DcKeyPoints}

InitDC ==
    /\ RaceIdle
    /\ MemIdle
    /\ JacIdle
    /\ LoopIdle
    /\ cache = EmptyCache
    /\ router_log = <<>>
    /\ router_count = 0
    /\ dc_pc = "call"
    /\ dc_objective \in Objectives
    /\ dc_result \in DcResults
    /\ dc_out = NoDoneCheck
    /\ GsIdle

CallDoneCheck ==
    /\ dc_pc = "call"
    /\ dc_out' = deterministic_done_check(dc_objective, dc_result)
    /\ dc_pc' = "returned"
    /\ UNCHANGED <<dc_objective, dc_result>>
    /\ UNCHANGED <<loop_vars, router_vars, gs_vars, jac_vars, mem_vars, race_vars>>

NextDC == CallDoneCheck

SpecDC == InitDC /\ [][NextDC]_vars

\* ------------------------------------------------ ToolRegistry.run called alone
ArgsStrMax ==
    <<Item("max_sentences", StrV(C("2"))), Item("text", StrV(<<"a", ".", "b">>))>>
ArgsSentences == <<Item("text", StrV(<<"a", ".", "b">>))>>
\* {"a": 1.0, "b": 2}, equal to ArgsAB as a mapping
ArgsAFloat == <<Item("a", FloatV(C("1"))), Item("b", NumV(C("2")))>>

\* The requests a caller hands to ToolRegistry.run
Requests ==
    {PlanStep(1, SUMMARIZE, ArgsSentences), PlanStep(1, SUMMARIZE, ArgsExtra),
     PlanStep(1, SUMMARIZE, ArgsStrMax),
     PlanStep(1, LOOKUP, ArgsAB), PlanStep(1, LOOKUP, ArgsBA),
     PlanStep(1, LOOKUP, ArgsAFloat),
     PlanStep(1, UNREGISTERED, ArgsAB)}

\* A row left in the shared table by an earlier process, whose registry
\* knew the tool
StaleCache == {Row(make_cache_key(UNREGISTERED, ArgsAB), _stable_json(GoodData))}

InitRouter ==
    /\ RaceIdle
    /\ MemIdle
    /\ JacIdle
    /\ LoopIdle
    /\ DcIdle
    /\ GsIdle
    /\ cache \in {EmptyCache, StaleCache}
    /\ router_log = <<>>
    /\ router_count = 0

\* The log keeps the call just made and the one before it
LatestTwo(log) == IF Len(log) > 2 THEN Tail(log) ELSE log

\* registry.run(req)
CallRun ==
    /\ router_count < MaxCalls
    /\ router_count' = router_count + 1
    /\ \E req \in Requests : \E env \in Envs(req) :
          LET ret == ToolRegistry_run(cache, req, env)
          IN  /\ cache' = ret.cache
              /\ router_log' = LatestTwo(Append(router_log, RouterCall(req, ret, cache)))
    /\ UNCHANGED <<loop_vars, dc_vars, gs_vars, jac_vars, mem_vars, race_vars>>

NextRouter == CallRun

SpecRouter == InitRouter /\ [][NextRouter]_vars

\* --------------------------------------------------- structured output
\* Texts the model may return
TextPlan == "{\"objective\": \"o\", \"steps\": []}"
TextRepairedPlan == "{\"objective\": \"r\", \"steps\": []}"
TextStepsNotList == "{\"objective\": \"o\", \"steps\": 3}"
TextArray == "[1]"
TextBroken == "{\"objective\": "
TextEmpty == ""

PrimaryTexts == {TextPlan, TextStepsNotList, TextArray, TextBroken, TextEmpty}
RepairTexts == {TextRepairedPlan, TextStepsNotList, TextArray, TextBroken}

\* json.loads(text): ok is FALSE for JSONDecodeError; is_object tells a JSON
\* object from any other JSON value
Parsed(ok, is_object, value) == [ok |-> ok, is_object |-> is_object, value |-> value]

json_loads(text) ==
    CASE text = TextPlan ->
            Parsed(TRUE, TRUE, <<Item("objective", StrV(C("o"))), Item("steps", ListV(<<>>))>>)
      [] text = TextRepairedPlan ->
            Parsed(TRUE, TRUE, <<Item("objective", StrV(C("r"))), Item("steps", ListV(<<>>))>>)
      [] text = TextStepsNotList ->
            Parsed(TRUE, TRUE, <<Item("objective", StrV(C("o"))), Item("steps", NumV(C("3")))>>)
      [] text = TextArray -> Parsed(TRUE, FALSE, <<>>)
      [] OTHER -> Parsed(FALSE, FALSE, <<>>)

\* Plan(**data) validates: objective: str, steps: List[PlanStep]
ValidPlan(data) ==
    /\ DictGet(data, "objective").t = "str"
    /\ DictGet(data, "steps").t = "list"

Validated(ok, value, error) == [ok |-> ok, value |-> value, error |-> error]

\* parse_and_validate(raw_output, Plan): the object, or the exception raised.
\* schema(**data) with data that is no mapping raises TypeError, which the
\* handler for ValidationError does not catch.
parse_and_validate(text) ==
    LET data == json_loads(text)
    IN  IF ~data.ok THEN Validated(FALSE, NoValue, "LLMInvalidJSON")
        ELSE IF ~data.is_object THEN Validated(FALSE, NoValue, "TypeError")
        ELSE IF ~ValidPlan(data.value) THEN Validated(FALSE, NoValue, "LLMSchemaViolation")
        ELSE Validated(TRUE, data.value, "")

ValidationErrors == {"LLMInvalidJSON", "LLMSchemaViolation"}

\* An exception of the API call itself
TransientError == "APIConnectionError"

\* One call of self.generate: for the attempt itself or for its repair pass,
\* the text returned, or raised
Output(call, text, call_raised) == [call |-> call, text |-> text, raised |-> call_raised]

Event(name, n, delay) == [event |-> name, attempt |-> n, delay |-> delay]

RECURSIVE Pow2(_)
Pow2(n) == IF n <= 0 THEN 1 ELSE 2 * Pow2(n - 1)

\* A mutant of BackoffDelay: the delay grows linearly
BackoffLinear(base, n) == base * n

\* _backoff(attempt): delay = base_backoff_seconds * (2 ** (attempt - 1))
BackoffDelay(base, n) == base * Pow2(n - 1)

\* A mutant of RepairWanted: the repair pass is made whenever validation fails
RepairAlways(enabled, raw) == TRUE

\* if self.repair_enabled and raw_output
RepairWanted(enabled, raw) == enabled /\ raw # ""

\* A mutant of AfterRepair: a validated repair is kept for the next attempt
\* instead of being returned
RepairFallsThrough(checked) == "backoff"

\* Where the handler goes after parse_and_validate(repaired, schema)
AfterRepair(checked) == IF checked.ok THEN "returned" ELSE "backoff"

\* A mutant of AttemptsLeft: the loop is range(1, max_attempts + 2)
OneAttemptMore(n, max) == n < max + 1

\* for attempt in range(1, self.max_attempts + 1): another attempt follows
AttemptsLeft(n, max) == n < max

\* A call client.generate_structured(prompt, Plan)
InitGS ==
    /\ RaceIdle
    /\ MemIdle
    /\ JacIdle
    /\ LoopIdle
    /\ DcIdle
    /\ cache = EmptyCache
    /\ router_log = <<>>
    /\ router_count = 0
    /\ gs_pc = "for"
    /\ max_attempts \in 1..MaxAttemptsBound
    /\ repair_enabled \in BOOLEAN
    /\ base_backoff_seconds \in {0, 1, 3}
    /\ attempt = 0
    /\ raw_output = ""
    /\ last_error = ""
    /\ gs_returned = NoValue
    /\ gs_raised = NoRaise
    /\ events = <<>>
    /\ outputs = <<>>

\* The for statement: the next attempt starts (llm_attempt is logged)
StartAttempt ==
    /\ gs_pc = "for"
    /\ AttemptsLeft(attempt, max_attempts)
    /\ attempt' = attempt + 1
    /\ events' = Append(events, Event("llm_attempt", attempt + 1, 0))
    /\ gs_pc' = "generate"
    /\ UNCHANGED <<max_attempts, repair_enabled, base_backoff_seconds, raw_output,
                   last_error, gs_returned, gs_raised, outputs>>
    /\ UNCHANGED <<loop_vars, router_vars, dc_vars, jac_vars, mem_vars, race_vars>>

\* The for statement is exhausted: raise RuntimeError(...) from last_error
RaiseExhausted ==
    /\ gs_pc = "for"
    /\ ~AttemptsLeft(attempt, max_attempts)
    /\ gs_raised' = [exc |-> "RuntimeError", cause |-> last_error]
    /\ gs_pc' = "raised"
    /\ UNCHANGED <<max_attempts, repair_enabled, base_backoff_seconds, attempt,
                   raw_output, last_error, gs_returned, events, outputs>>
    /\ UNCHANGED <<loop_vars, router_vars, dc_vars, jac_vars, mem_vars, race_vars>>

\* raw_output = self.generate(prompt) raises: the handler `except Exception`
GenerateFails ==
    /\ gs_pc = "generate"
    /\ last_error' = TransientError
    /\ events' = Append(events, Event("llm_transient_error", attempt, 0))
    /\ outputs' = Append(outputs, Output("primary", "", TRUE))
    /\ gs_pc' = "backoff"
    /\ UNCHANGED <<max_attempts, repair_enabled, base_backoff_seconds, attempt,
                   raw_output, gs_returned, gs_raised>>
    /\ UNCHANGED <<loop_vars, router_vars, dc_vars, jac_vars, mem_vars, race_vars>>

\* raw_output = self.generate(prompt) returns a text;
\* return parse_and_validate(raw_output, schema), and the two handlers
Generate ==
    /\ gs_pc = "generate"
    /\ \E text \in PrimaryTexts :
          LET checked == parse_and_validate(text)
              usage == Append(events, Event("llm_usage", attempt, 0))
          IN  /\ raw_output' = text
              /\ outputs' = Append(outputs, Output("primary", text, FALSE))
              /\ IF checked.ok
                 THEN /\ gs_returned' = checked.value
                      /\ events' = usage
                      /\ gs_pc' = "returned"
                      /\ UNCHANGED last_error
                 ELSE IF checked.error \in ValidationErrors
                 THEN /\ last_error' = checked.error
                      /\ events' = Append(usage, Event("llm_validation_error", attempt, 0))
                      /\ gs_pc' = IF RepairWanted(repair_enabled, text)
                                  THEN "repair" ELSE "backoff"
                      /\ UNCHANGED gs_returned
                 ELSE /\ last_error' = checked.error
                      /\ events' = Append(usage, Event("llm_transient_error", attempt, 0))
                      /\ gs_pc' = "backoff"
                      /\ UNCHANGED gs_returned
    /\ UNCHANGED <<max_attempts, repair_enabled, base_backoff_seconds, attempt, gs_raised>>
    /\ UNCHANGED <<loop_vars, router_vars, dc_vars, jac_vars, mem_vars, race_vars>>

\* repaired = self._repair_json(raw_output, schema): its self.generate raises
\* inside the handler, so the exception leaves generate_structured
RepairCallFails ==
    /\ gs_pc = "repair"
    /\ events' = Append(events, Event("llm_repair_attempt", attempt, 0))
    /\ gs_raised' = [exc |-> TransientError, cause |-> last_error]
    /\ outputs' = Append(outputs, Output("repair", "", TRUE))
    /\ gs_pc' = "raised"
    /\ UNCHANGED <<max_attempts, repair_enabled, base_backoff_seconds, attempt,
                   raw_output, last_error, gs_returned>>
    /\ UNCHANGED <<loop_vars, router_vars, dc_vars, jac_vars, mem_vars, race_vars>>

\* repaired = self._repair_json(raw_output, schema) returns a text;
\* return parse_and_validate(repaired, schema), or last_error = e2
Repair ==
    /\ gs_pc = "repair"
    /\ \E text \in RepairTexts :
          LET checked == parse_and_validate(text)
              logged == events \o <<Event("llm_repair_attempt", attempt, 0),
                                    Event("llm_usage", attempt, 0)>>
          IN  /\ gs_pc' = AfterRepair(checked)
              /\ outputs' = Append(outputs, Output("repair", text, FALSE))
              /\ IF checked.ok
                 THEN /\ gs_returned' = checked.value
                      /\ events' = logged
                      /\ UNCHANGED last_error
                 ELSE /\ last_error' = checked.error
                      /\ events' = Append(logged, Event("llm_repair_failed", attempt, 0))
                      /\ UNCHANGED gs_returned
    /\ UNCHANGED <<max_attempts, repair_enabled, base_backoff_seconds, attempt,
                   raw_output, gs_raised>>
    /\ UNCHANGED <<loop_vars, router_vars, dc_vars, jac_vars, mem_vars, race_vars>>

\* self._backoff(attempt): the delay is logged and slept, then the for
\* statement is reached again
Backoff ==
    /\ gs_pc = "backoff"
    /\ events' = Append(events, Event("llm_backoff", attempt,
                                      BackoffDelay(base_backoff_seconds, attempt)))
    /\ gs_pc' = "for"
    /\ UNCHANGED <<max_attempts, repair_enabled, base_backoff_seconds, attempt,
                   raw_output, last_error, gs_returned, gs_raised, outputs>>
    /\ UNCHANGED <<loop_vars, router_vars, dc_vars, jac_vars, mem_vars, race_vars>>

NextGS ==
    \/ StartAttempt
    \/ RaiseExhausted
    \/ GenerateFails
    \/ Generate
    \/ RepairCallFails
    \/ Repair
    \/ Backoff

SpecGS == InitGS /\ [][NextGS]_vars

\* ----------------------------------------------------- jaccard called alone
MaxText == 3

MemAlphabet == {"s", "S", "t", " "}

\* The texts of at most MaxText characters
MemTexts == UNION {[1..n -> MemAlphabet] : n \in 0..MaxText}

InitJac ==
    /\ RaceIdle
    /\ MemIdle
    /\ LoopIdle
    /\ RouterIdle
    /\ DcIdle
    /\ GsIdle
    /\ jac_pc = "call"
    /\ jac_a \in MemTexts
    /\ jac_b \in MemTexts
    /\ jac_out = Quotient(0, 1)

\* jaccard(a, b)
CallJaccard ==
    /\ jac_pc = "call"
    /\ jac_out' = jaccard(jac_a, jac_b)
    /\ jac_pc' = "returned"
    /\ UNCHANGED <<jac_a, jac_b>>
    /\ UNCHANGED <<loop_vars, router_vars, dc_vars, gs_vars, mem_vars, race_vars>>

NextJac == CallJaccard

SpecJac == InitJac /\ [][NextJac]_vars

\* ------------------------------------------- find_relevant_runs called alone
MaxRuns == 3

\* The objectives of the stored runs: against "s t" they score 1, 1, 1/2, 1/2
\* and 0
StoredObjectives ==
    {<<"s", " ", "t">>, <<"T", " ", " ", "S">>, <<"s">>, <<"t", " ", "t">>, <<"s", "t">>}

RunIds == <<"r1", "r2", "r3", "r4", "r5">>

\* The tables of at most MaxRuns runs, most recent first
Tables ==
    UNION {{[i \in 1..n |-> StoredRun(RunIds[i], objs[i])] : objs \in [1..n -> StoredObjectives]}
           : n \in 0..MaxRuns}

InitMem ==
    /\ RaceIdle
    /\ LoopIdle
    /\ RouterIdle
    /\ DcIdle
    /\ GsIdle
    /\ JacIdle
    /\ mem_pc = "call"
    /\ mem_table \in Tables
    /\ mem_objective \in {<<"s", " ", "t">>, <<>>}
    /\ mem_k \in (0 - 1)..MaxRuns
    /\ mem_scan_limit \in (0 - 1)..MaxRuns
    /\ mem_out = <<>>

\* find_relevant_runs(objective, k=k, scan_limit=scan_limit)
CallFindRelevantRuns ==
    /\ mem_pc = "call"
    /\ mem_out' = find_relevant_runs(mem_table, mem_objective, mem_k, mem_scan_limit)
    /\ mem_pc' = "returned"
    /\ UNCHANGED <<mem_table, mem_objective, mem_k, mem_scan_limit>>
    /\ UNCHANGED <<loop_vars, router_vars, dc_vars, gs_vars, jac_vars, race_vars>>

NextMem == CallFindRelevantRuns

SpecMem == InitMem /\ [][NextMem]_vars

\* ------------------------------------- two concurrent calls of ToolRegistry.run
\* Each call runs get_cached_tool_result and set_cached_tool_result in a
\* transaction of its own on the shared table; the tool function touches no
\* shared state, so a call is two atomic steps: lines 35-56 and lines 58-89.
InitRace ==
    /\ LoopIdle
    /\ DcIdle
    /\ GsIdle
    /\ JacIdle
    /\ MemIdle
    /\ cache \in {EmptyCache, StaleCache}
    /\ router_log = <<>>
    /\ router_count = 0
    /\ race_req \in Requests
    /\ race_pc = [p \in Procs |-> "lookup"]
    /\ race_events = [p \in Procs |-> <<>>]
    /\ race_ret = [p \in Procs |-> NotReturned]

\* Lines 35-56 of run in process p: the allowlist test and the cache lookup
RaceLookup(p) ==
    /\ race_pc[p] = "lookup"
    /\ \E read_ok \in BOOLEAN :
          LET tool_name == race_req.tool_name
              cached == get_cached_tool_result(cache, tool_name, race_req.args, read_ok)
          IN  IF tool_name \notin RegisteredTools
              THEN /\ race_ret' = [race_ret EXCEPT ![p] = UnknownTool(cache, tool_name)]
                   /\ race_pc' = [race_pc EXCEPT ![p] = "returned"]
                   /\ UNCHANGED race_events
              ELSE IF ~cached.raised /\ cached.found
              THEN /\ race_ret' = [race_ret EXCEPT ![p] =
                          RunReturn(ToolResult(tool_name, TRUE, cached.data, NoError), "",
                                    cache, LookupEvents(cached), TRUE, FALSE, FALSE,
                                    NotCalled)]
                   /\ race_pc' = [race_pc EXCEPT ![p] = "returned"]
                   /\ UNCHANGED race_events
              ELSE /\ race_events' = [race_events EXCEPT ![p] = LookupEvents(cached)]
                   /\ race_pc' = [race_pc EXCEPT ![p] = "missed"]
                   /\ UNCHANGED race_ret
    /\ UNCHANGED <<race_req, cache, router_log, router_count>>
    /\ UNCHANGED <<loop_vars, dc_vars, gs_vars, jac_vars, mem_vars>>

\* Lines 58-89 of run in process p: the tool function, the cache write on
\* the table as it is now, the ToolResult
RaceFinish(p) ==
    /\ race_pc[p] = "missed"
    /\ \E env \in {e \in Envs(race_req) : e.read_ok} :
          LET ret == AfterMiss(cache, race_req.tool_name, race_req.args, env,
                               race_events[p])
          IN  /\ race_ret' = [race_ret EXCEPT ![p] = ret]
              /\ cache' = ret.cache
    /\ race_pc' = [race_pc EXCEPT ![p] = "returned"]
    /\ UNCHANGED <<race_req, race_events, router_log, router_count>>
    /\ UNCHANGED <<loop_vars, dc_vars, gs_vars, jac_vars, mem_vars>>

NextRace == \E p \in Procs : RaceLookup(p) \/ RaceFinish(p)

SpecRace == InitRace /\ [][NextRace]_vars

\* ------------------- run_agent_loop with summarize-only plans, a working cache
\* {"max_sentences": 5, "text": "y"}
ArgsLong == <<Item("max_sentences", NumV(C("5"))), Item("text", StrV(C("y")))>>
PlanSummarizeLong == <<PlanStep(1, SUMMARIZE, ArgsLong)>>

\* Planner outputs that are a single summarize_text_local step
SummarizePlans == {PlanSummarize, PlanSummarizeLong, PlanBadArgs}

InitSum == Init /\ ~dry_run

NextSum ==
    \/ StartRun
    \/ NextIteration
    \/ Exhausted
    \/ RequestPlanAmong(SummarizePlans)
    \/ PlanRequestFails
    \/ GuardPlan
    \/ ExecuteStepUnder({TRUE})
    \/ Observe
    \/ Check
    \/ SaveRun

SpecSum == InitSum /\ [][NextSum]_vars

\* =================================================================== claims
Finished == pc \in {"returned", "raised"}

\* The two fatal classes of run_agent_loop
FatalErrors ==
    {"RuntimeError: LLM failed after max_attempts attempts",
     "RuntimeError: Planner violated objective payload constraint"}

\* C1: a run with dry_run=false and max_iterations = N >= 1 in which no
\* done-check is true and no fatal error is raised requests exactly N plans,
\* persists the run exactly once and returns ok=false with iterations=N.
C1_ExhaustedRunPersistsAndReturns ==
    (Finished /\ ~dry_run /\ max_iterations >= 1 /\ ~done_check.done
        /\ raised \notin FatalErrors)
    => /\ pc = "returned"
       /\ plan_requests = max_iterations
       /\ iteration = max_iterations
       /\ save_calls = 1
       /\ Cardinality(runs) = 1
       /\ result.ok = FALSE
       /\ result.iterations = max_iterations

\* C2: with dry_run=false, the first iteration whose done-check is true ends
\* the run: no further plan request or tool call, the run persisted exactly
\* once, and the result returned has ok=true, iterations=i and
\* final_answer equal to the rationale of that check.
C2_DoneRunPersistsAndReturns ==
    (Finished /\ ~dry_run /\ done_check.done)
    => /\ pc = "returned"
       /\ plan_requests = iteration
       /\ save_calls = 1
       /\ Cardinality(runs) = 1
       /\ result.ok = TRUE
       /\ result.iterations = iteration
       /\ result.final_answer = done_check.rationale

\* C3: execute_plan hands the steps to the router in plan order and stops at
\* the first step that is not ok: the steps recorded are the plan's prefix up
\* to and including the first failure (the whole plan when none fails), and
\* the router saw exactly those steps.
C3_ExecutePlanIsFailFastPrefix ==
    /\ Len(router_calls) =
          Len(executed_steps_log)
          + (IF pc \in {"execute", "observe"} THEN Len(executed_steps) ELSE 0)
    /\ pc \in {"execute", "observe"} =>
          LET k == Len(executed_steps)
              n == Len(router_calls)
          IN  /\ k <= Len(plan)
              /\ \A i \in 1..k :
                    /\ executed_steps[i].step_id = plan[i].step_id
                    /\ executed_steps[i].tool_name = plan[i].tool_name
                    /\ router_calls[n - k + i].step = plan[i]
                    /\ router_calls[n - k + i].ok = executed_steps[i].ok
              /\ \A i \in 1..(k - 1) : executed_steps[i].ok
              /\ pc = "execute" => (k < Len(plan) /\ \A i \in 1..k : executed_steps[i].ok)
              /\ pc = "observe" => (k >= 1 /\ (~executed_steps[k].ok \/ k = Len(plan)))

\* C3 witness: steps [ok, failed] recorded of a plan of three steps
C3_Witness ==
    /\ pc = "observe"
    /\ Len(plan) = 3
    /\ Len(executed_steps) = 2
    /\ executed_steps[1].ok
    /\ ~executed_steps[2].ok

\* C4: for a tool name that is not registered, run returns ok=false with the
\* error "Unknown tool", and reads no cache, writes no cache and calls no
\* tool function.
C4_UnknownToolTouchesNothing ==
    \A i \in 1..Len(router_log) :
        router_log[i].tool_name \notin RegisteredTools =>
            /\ router_log[i].propagated = ""
            /\ router_log[i].result.ok = FALSE
            /\ router_log[i].result.error = <<"Unknown tool">>
            /\ router_log[i].result.data = <<>>
            /\ ~router_log[i].cache_read
            /\ ~router_log[i].cache_write
            /\ ~router_log[i].invoked
            /\ router_log[i].events = <<>>
            /\ router_log[i].cache_after = router_log[i].cache_before

\* C4 witness: an unregistered tool called while the table holds a row under
\* the key of that very request
C4_Witness ==
    \E i \in 1..Len(router_log) :
        /\ router_log[i].tool_name \notin RegisteredTools
        /\ make_cache_key(router_log[i].tool_name, router_log[i].args)
              \in CacheKeys(router_log[i].cache_before)

SameRequest(a, b) ==
    /\ a.tool_name = b.tool_name
    /\ a.tool_name \in RegisteredTools
    /\ SameMapping(a.args, b.args)

\* C5 as stated: of two calls in a row with the same registered tool and
\* arguments equal as mappings, the first ok, the second is a cache hit
\* returning ok=true with the data of the first and the tool function is
\* called at most once; both calls use the same cache key.
C5_SecondCallIsAlwaysHit ==
    \A i \in 1..(Len(router_log) - 1) :
        LET first == router_log[i]
            second == router_log[i + 1]
        IN  (SameRequest(first, second) /\ first.result.ok) =>
              /\ second.result.ok
              /\ "tool_cache_hit" \in {second.events[j] : j \in 1..Len(second.events)}
              /\ SameMapping(second.result.data, first.result.data)
              /\ ~(first.invoked /\ second.invoked)
              /\ make_cache_key(first.tool_name, first.args)
                    = make_cache_key(second.tool_name, second.args)

Logged(call, event) == event \in {call.events[j] : j \in 1..Len(call.events)}

\* Whether equal keys carry values of the same Python type in both mappings
SameTypes(d1, d2) ==
    \A i \in 1..Len(d1) : \A j \in 1..Len(d2) :
        (d1[i].k = d2[j].k) => (d1[i].v.t = d2[j].v.t)

\* C5 amended: when also equal arguments have the same type in both calls
\* (1 and 1.0 are written differently), the first call logged no cache-write
\* error and the second no cache-read error, the second call is a cache
\* hit returning ok=true with the first call's data as JSON reads it back,
\* the tool function is called at most once, and both calls use the same
\* cache key.
C5_SecondCallIsHitWhenCacheWorks ==
    \A i \in 1..(Len(router_log) - 1) :
        LET first == router_log[i]
            second == router_log[i + 1]
        IN  (/\ SameRequest(first, second)
             /\ SameTypes(first.args, second.args)
             /\ first.result.ok
             /\ ~Logged(first, "tool_cache_write_error")
             /\ ~Logged(second, "tool_cache_error")) =>
              /\ second.result.ok
              /\ Logged(second, "tool_cache_hit")
              /\ ~second.invoked
              /\ SameMapping(second.result.data,
                             [j \in 1..Len(first.result.data) |->
                                 JsonItem(first.result.data[j])])
              /\ make_cache_key(first.tool_name, first.args)
                    = make_cache_key(second.tool_name, second.args)

\* C5 witness: a miss that called the tool, then a hit on the same arguments
\* given in the other key order
C5_Witness ==
    \E i \in 1..(Len(router_log) - 1) :
        /\ SameRequest(router_log[i], router_log[i + 1])
        /\ router_log[i].args # router_log[i + 1].args
        /\ router_log[i].invoked
        /\ router_log[i].result.ok
        /\ Logged(router_log[i + 1], "tool_cache_hit")

\* C6: whatever way the tool function fails (it raises, it rejects its
\* arguments, it returns a non-mapping), run lets no exception out and
\* returns ok=false with a non-empty error.
C6_ToolFailureBecomesErrorResult ==
    \A i \in 1..Len(router_log) :
        /\ router_log[i].propagated = ""
        /\ (router_log[i].invoked /\ router_log[i].outcome.kind \in {"raise", "nondict"}) =>
              /\ router_log[i].result.ok = FALSE
              /\ router_log[i].result.error # NoError
              /\ \A j \in 1..Len(router_log[i].result.error) :
                    router_log[i].result.error[j] # ""

\* C6 witness: a tool function that raised something other than TypeError
C6_Witness ==
    \E i \in 1..Len(router_log) :
        /\ router_log[i].invoked
        /\ router_log[i].outcome.kind = "raise"
        /\ router_log[i].outcome.exc = "ValueError"
        /\ ~router_log[i].result.ok

HasSummaryAndKeyPoints(data) ==
    /\ DictGet(data, "summary").t = "str"
    /\ \E i \in 1..Len(DictGet(data, "summary").s) :
          DictGet(data, "summary").s[i] \notin WhiteSpace
    /\ DictGet(data, "key_points").t = "list"
    /\ Len(DictGet(data, "key_points").l) >= 2

\* C7: with dry_run=false the loop builds a result with ok=true only when
\* the last StepExecution of the iteration it stopped in succeeded with a
\* non-blank summary and at least two key_points.
C7_OkOnlyOnGoodLatestResult ==
    (~dry_run /\ result.ok) =>
        /\ executed_steps # <<>>
        /\ executed_steps[Len(executed_steps)].ok
        /\ HasSummaryAndKeyPoints(executed_steps[Len(executed_steps)].data)
        /\ done_check.done

\* C7 witness: the loop stops as done in its second iteration, after an
\* iteration that ended in a failed step
C7_Witness ==
    /\ ~dry_run
    /\ result.ok
    /\ pc = "save"
    /\ iteration = 2
    /\ \E i \in 1..Len(last_tool_results) : last_tool_results[i].kind = "error"

Terminators == {".", "!", "?"}

\* The number of stretches between terminators that hold a non-blank character
Segments(s) ==
    Cardinality({i \in 1..Len(s) :
        /\ s[i] \notin Terminators \cup WhiteSpace
        /\ \A j \in 1..(i - 1) :
              s[j] \notin Terminators \cup WhiteSpace =>
                 \E m \in (j + 1)..(i - 1) : s[m] \in Terminators})

\* The modelled objectives that ask for 2 sentences
AskingTwoSentences == {ObjTwoSentence}

\* C8: deterministic_done_check returns done=true exactly when the result is
\* present, data.summary is a string that is not blank, data.key_points is a
\* list of at least 2 entries and, when the objective asks for 2 sentences,
\* the summary has 1 to 3 non-blank segments between '.', '!' and '?'.
C8_DoneCheckCharacterised ==
    dc_pc = "returned" =>
        (dc_out.done <=>
            /\ dc_result.kind # "none"
            /\ HasSummaryAndKeyPoints(dc_result.data)
            /\ dc_objective \in AskingTwoSentences =>
                  Segments(DictGet(dc_result.data, "summary").s) \in 1..3)

\* C8 witness: an objective asking for 2 sentences and a good summary of
\* four sentences, refused
C8_Witness ==
    /\ dc_pc = "returned"
    /\ dc_objective \in AskingTwoSentences
    /\ HasSummaryAndKeyPoints(dc_result.data)
    /\ Segments(DictGet(dc_result.data, "summary").s) = 4
    /\ ~dc_out.done

\* The modelled texts that are a JSON object conforming to Plan
ValidTexts == {TextPlan, TextRepairedPlan}

LastOutput == outputs[Len(outputs)]

LastEvent == events[Len(events)]

\* C9: when an attempt's output is invalid JSON or a schema violation and the
\* repair call's output validates, generate_structured returns the repaired
\* value at once: no backoff and no further attempt follow.
C9_ValidRepairReturnsAtOnce ==
    (/\ outputs # <<>>
     /\ LastOutput.call = "repair"
     /\ ~LastOutput.raised
     /\ LastOutput.text \in ValidTexts) =>
        /\ gs_pc = "returned"
        /\ gs_returned = json_loads(LastOutput.text).value
        /\ gs_raised = NoRaise
        /\ LastEvent.event = "llm_usage"
        /\ events[Len(events) - 1].event = "llm_repair_attempt"
        /\ LastEvent.attempt = attempt

\* C9 witness: the repair of the second attempt validates while a third
\* attempt was still left
C9_Witness ==
    /\ gs_pc = "returned"
    /\ attempt = 2
    /\ max_attempts = 3
    /\ LastOutput.call = "repair"
    /\ LastOutput.text \in ValidTexts
    /\ outputs[Len(outputs) - 1].text \in {TextBroken, TextStepsNotList}

\* The error each invalid text is to be reported with
ExpectedError(text) ==
    CASE text = TextStepsNotList -> "LLMSchemaViolation"
      [] text = TextArray -> "TypeError"
      [] OTHER -> "LLMInvalidJSON"

PrimaryCalls == Cardinality({i \in 1..Len(outputs) : outputs[i].call = "primary"})

AllOutputsInvalid ==
    \A i \in 1..Len(outputs) : ~outputs[i].raised /\ outputs[i].text \notin ValidTexts

\* C10: when every text the model returns is invalid, repairs included,
\* generate_structured never returns a value, starts no attempt beyond
\* max_attempts, and raises only after exactly max_attempts primary calls,
\* a RuntimeError whose cause is the last error observed.
C10_ExhaustionAfterMaxAttempts ==
    AllOutputsInvalid =>
        /\ gs_pc # "returned"
        /\ gs_returned = NoValue
        /\ attempt <= max_attempts
        /\ PrimaryCalls <= max_attempts
        /\ gs_pc = "raised" =>
              /\ PrimaryCalls = max_attempts
              /\ gs_raised.exc = "RuntimeError"
              /\ gs_raised.cause = ExpectedError(LastOutput.text)

\* C10 witness: three attempts used up, the last error that of a repair
C10_Witness ==
    /\ AllOutputsInvalid
    /\ gs_pc = "raised"
    /\ max_attempts = 3
    /\ LastOutput.call = "repair"
    /\ outputs[Len(outputs) - 1].text = TextBroken
    /\ LastOutput.text = TextStepsNotList

\* C11: an exception raised by a text-generation call of generate_structured,
\* the primary call of an attempt or the repair call made for it, is retried:
\* no repair follows it, the next call is the next attempt's, and the
\* protocol fails only with all max_attempts attempts used up.
C11_CallFailuresAreRetried ==
    /\ \A i \in 1..(Len(outputs) - 1) :
          outputs[i].raised => outputs[i + 1].call = "primary"
    /\ gs_pc = "raised" =>
          /\ gs_raised.exc = "RuntimeError"
          /\ PrimaryCalls = max_attempts

\* C12: a run raises only for one of the two fatal classes (the
\* structured-output protocol exhausted, the payload guard); every other run
\* returns an AgentRunResult.
C12_OnlyFatalClassesRaise ==
    pc = "raised" => raised \in FatalErrors

\* C13: the RunSummary execute_plan returns has ok=true exactly when every
\* StepExecution of its steps is ok, and ok=false exactly when the last
\* recorded step failed.
C13_SummaryOkIffAllStepsOk ==
    pc = "observe" =>
        /\ overall_ok = (\A i \in 1..Len(executed_steps) : executed_steps[i].ok)
        /\ executed_steps # <<>> =>
              (overall_ok = executed_steps[Len(executed_steps)].ok)

\* C13 witness: a summary whose first step succeeded and whose second failed
C13_Witness ==
    /\ pc = "observe"
    /\ Len(executed_steps) = 2
    /\ executed_steps[1].ok
    /\ ~executed_steps[2].ok
    /\ ~overall_ok

IsPrefix(s, t) == Len(s) <= Len(t) /\ SubSeq(t, 1, Len(s)) = s

\* C14: within a run AgentState is append-only: every step of the run leaves
\* the earlier notes and the earlier last_tool_results as a prefix of the new
\* ones.
C14_StateIsAppendOnly ==
    [][/\ IsPrefix(notes, notes')
       /\ IsPrefix(last_tool_results, last_tool_results')]_vars

\* C14 witness: the second iteration has added to what the first left
C14_Witness ==
    /\ iteration = 2
    /\ pc = "check"
    /\ Len(executed_steps) >= 1
    /\ Len(notes) > Len(executed_steps)
    /\ Len(last_tool_results) > Len(executed_steps)

\* C15: in every iteration the plan is there before any of its steps runs,
\* the steps run in listed order and all before the state is updated, the
\* state is updated before the done-check, and the next iteration starts
\* only after the done-check (or the empty-plan exit) of this one.
C15_PhasesInOrder ==
    [][/\ (pc = "plan") => (pc' \in {"guard", "raised"})
       /\ (pc' = "execute" /\ pc # "execute") =>
             (pc = "guard" /\ plan' # <<>> /\ executed_steps' = <<>>)
       /\ (router_calls' # router_calls) =>
             /\ pc = "execute"
             /\ plan' = plan
             /\ Len(router_calls') = Len(router_calls) + 1
             /\ SubSeq(router_calls', 1, Len(router_calls)) = router_calls
             /\ router_calls'[Len(router_calls')].step = plan[Len(executed_steps) + 1]
       /\ (pc' = "observe") => (pc = "execute")
       /\ (last_tool_results' # last_tool_results) => (pc = "observe" /\ pc' = "check")
       /\ (notes' # notes) => (pc \in {"observe", "guard"})
       /\ (pc' = "check") => (pc = "observe")
       /\ (done_check' # done_check) => (pc = "check")
       /\ (pc = "check") => (pc' \in {"for", "save"})
       /\ (iteration' # iteration) =>
             (pc = "for" /\ pc' = "plan" /\ iteration' = iteration + 1)
       /\ (pc' = "for") => (pc \in {"start", "check", "guard"})
       /\ (pc' = "plan") => (pc = "for")]_vars

\* C15 witness: the second iteration has run both steps of its plan, in
\* order, and reached its done-check
C15_Witness ==
    /\ iteration = 2
    /\ pc = "check"
    /\ Len(executed_steps) = 2
    /\ Len(router_calls) >= 3
    /\ router_calls[Len(router_calls)].step = plan[2]
    /\ router_calls[Len(router_calls) - 1].step = plan[1]

\* C16: a cache entry never changes once written: every row the cache held
\* before a router call is still there, with the same value, after it, and a
\* hit returns the value stored.
C16_CacheEntriesNeverChange ==
    \A i \in 1..Len(router_log) :
        /\ \A row \in router_log[i].cache_before : row \in router_log[i].cache_after
        /\ Logged(router_log[i], "tool_cache_hit") =>
              Row(make_cache_key(router_log[i].tool_name, router_log[i].args),
                  router_log[i].result.data) \in router_log[i].cache_before

\* C17: a cache failure never fails a router call: after a cache read that
\* raised, run goes on as on a miss and calls the tool; after a cache write
\* that raised, run still returns ok=true with the output of the tool (an
\* output ToolResult accepts), and no exception leaves run.
C17_CacheFailuresAreAbsorbed ==
    \A i \in 1..Len(router_log) :
        LET call == router_log[i]
            out == call.outcome
            accepted == /\ out.kind = "dict"
                        /\ \A j \in 1..Len(out.data) : out.data[j].kt = "str"
        IN  /\ Logged(call, "tool_cache_error") =>
                  /\ call.propagated = ""
                  /\ Logged(call, "tool_cache_miss")
                  /\ ~Logged(call, "tool_cache_hit")
                  /\ call.invoked
                  /\ accepted => (call.result.ok /\ call.result.data = out.data)
            /\ Logged(call, "tool_cache_write_error") =>
                  /\ call.propagated = ""
                  /\ call.invoked
                  /\ call.cache_after = call.cache_before
                  /\ accepted =>
                        /\ call.result.ok
                        /\ call.result.data = out.data
                        /\ call.result.error = NoError

\* C17 witness: a call whose cache read and cache write both raised and
\* that returned the tool's output
C17_Witness ==
    \E i \in 1..Len(router_log) :
        /\ Logged(router_log[i], "tool_cache_error")
        /\ Logged(router_log[i], "tool_cache_write_error")
        /\ router_log[i].result.ok
        /\ router_log[i].result.data = GoodData

\* Whether the arguments of a call fail to match the parameters of the tool
\* function: summarize_text_local(text, max_sentences=2); the other
\* registered tool takes any keywords
ArgsMismatch(call) ==
    /\ call.tool_name = SUMMARIZE
    /\ \/ ~(DictKeys(call.args) \subseteq {"text", "max_sentences"})
       \/ "text" \notin DictKeys(call.args)

\* C18: run reports "Bad tool args: ..." exactly when the arguments do not
\* match the tool function's parameters, and every other exception the tool
\* function raises, of any type, as "Tool error: <kind>: <detail>".
C18_BadArgsOnlyForMismatch ==
    \A i \in 1..Len(router_log) :
        LET call == router_log[i]
        IN  call.invoked =>
              /\ (call.result.error # NoError /\ call.result.error[1] = "Bad tool args: ")
                    <=> ArgsMismatch(call)
              /\ (call.outcome.kind = "raise" /\ ~ArgsMismatch(call)) =>
                    call.result.error =
                        <<"Tool error: ", call.outcome.exc, ": ", call.outcome.msg>>

\* C19: with dry_run=false, an iteration whose plan has no steps appends
\* exactly one note, leaves last_tool_results and the step log as they are,
\* calls no router, runs no done-check, persists nothing, and goes back to
\* the for statement with the iteration counted.
C19_EmptyPlanOnlyAddsNote ==
    [][(pc = "guard" /\ plan = <<>> /\ ~dry_run) =>
          /\ Len(notes') = Len(notes) + 1
          /\ SubSeq(notes', 1, Len(notes)) = notes
          /\ notes'[Len(notes')].text = "Planner returned empty steps."
          /\ UNCHANGED <<last_tool_results, executed_steps_log, router_calls, cache,
                         done_check, runs, save_calls, iteration, plan_requests,
                         result, raised>>
          /\ iteration >= 1
          /\ plan_requests = iteration
          /\ pc' = "for"]_vars

\* C19 witness: the second iteration got an empty plan after the first had
\* run a tool, and is over
C19_Witness ==
    /\ ~dry_run
    /\ iteration = 2
    /\ pc = "for"
    /\ plan = <<>>
    /\ Len(last_tool_results) >= 1
    /\ Len(notes) = Len(last_tool_results) + 1
    /\ notes[Len(notes)].text = "Planner returned empty steps."

\* The objective payload of each modelled objective: the text after the
\* first ":", trimmed, or the whole objective when it has no ":"
ExpectedPayload ==
    CASE objective = ObjTwoSentence -> <<"a", ".", "b">>
      [] objective = ObjOnePoint -> <<"a", ":", "b", ".">>
      [] OTHER -> objective

\* C20: every summarize_text_local step that reaches the router has text
\* equal to the objective payload and max_sentences equal to 2, whatever
\* the planner gave; a step for another tool reaches the router as the
\* planner gave it.
C20_SummarizeArgsAreForced ==
    \A i \in 1..Len(router_calls) :
        LET step == router_calls[i].step
        IN  IF step.tool_name = SUMMARIZE
            THEN /\ DictGet(step.args, "text") = StrV(ExpectedPayload)
                 /\ DictGet(step.args, "max_sentences") = NumV(C("2"))
            ELSE \E p \in Plans : \E j \in 1..Len(p) : p[j] = step

\* C20 witness: the router got a summarize step whose planner text was not
\* the payload, for an objective with two ":", and a step for another tool
C20_Witness ==
    /\ objective = ObjOnePoint
    /\ \E i \in 1..Len(router_calls) :
          /\ router_calls[i].step.tool_name = SUMMARIZE
          /\ DictGet(router_calls[i].step.args, "text") = StrV(<<"a", ":", "b", ".">>)
    /\ \E i \in 1..Len(router_calls) : router_calls[i].step.tool_name = LOOKUP

\* A StepExecution is well formed when ok goes with no error, and not ok
\* goes with an error text and empty data
WellFormedStep(e) ==
    /\ e.ok => e.error = NoError
    /\ ~e.ok => (e.error # NoError /\ e.data = <<>>)
    /\ ~(e.data # <<>> /\ e.error # NoError)

\* C21: every StepExecution produced by execute_plan, in the current summary
\* and in the step log of the run, has ok=true with no error, or ok=false
\* with an error text and empty data; none has both data and an error.
C21_StepExecutionsAreWellFormed ==
    /\ \A i \in 1..Len(executed_steps) : WellFormedStep(executed_steps[i])
    /\ \A i \in 1..Len(executed_steps_log) : WellFormedStep(executed_steps_log[i])

C21_Witness ==
    /\ \E i \in 1..Len(executed_steps_log) :
          executed_steps_log[i].ok /\ executed_steps_log[i].data # <<>>
    /\ \E i \in 1..Len(executed_steps_log) :
          ~executed_steps_log[i].ok /\ executed_steps_log[i].error = <<"Unknown tool">>
    /\ \E i \in 1..Len(executed_steps_log) :
          ~executed_steps_log[i].ok /\ executed_steps_log[i].error[1] = "Tool error: "

\* The whitespace-separated tokens of a text, lower-cased, found by scanning
\* for the places where a token starts and ends
TokenAt(s, i, j) ==
    /\ i <= j
    /\ \A n \in i..j : s[n] \notin WhiteSpace
    /\ (i = 1 \/ s[i - 1] \in WhiteSpace)
    /\ (j = Len(s) \/ s[j + 1] \in WhiteSpace)

TokenSet(s) ==
    {Lower(SubSeq(s, i, j)) : <<i, j>> \in {p \in (1..Len(s)) \X (1..Len(s)) : TokenAt(s, p[1], p[2])}}

\* The text with the case of every letter changed
OtherCase(s) ==
    [i \in 1..Len(s) |->
        CASE s[i] = "s" -> "S"
          [] s[i] = "S" -> "s"
          [] s[i] = "t" -> "T"
          [] OTHER -> s[i]]

\* The text with the parts before and after its i-th character, a
\* whitespace, exchanged
Exchanged(s, i) == SubSeq(s, i + 1, Len(s)) \o <<s[i]>> \o SubSeq(s, 1, i - 1)

\* Texts that differ from s only in case, in the order of the tokens or in
\* their repetition
Variants(s) ==
    {OtherCase(s), s \o <<" ">> \o s, s \o <<" ">> \o OtherCase(s)}
    \cup {Exchanged(s, i) : i \in {n \in 1..Len(s) : s[n] \in WhiteSpace}}

\* x <= y for two fractions
FractionLeq(x, y) == x.num * y.den <= y.num * x.den

\* C22: jaccard(a, b) is |A \cap B| / |A \cup B| over the lower-cased
\* whitespace tokens, 1.0 when both token sets are empty, 0.0 when exactly
\* one is, 1.0 when they are equal, 0.0 when they are disjoint and not
\* empty; it is symmetric, the same for texts that differ only in case,
\* token order or repetition, and within [0, 1].
C22_JaccardIsSetSimilarity ==
    jac_pc = "returned" =>
        LET A == TokenSet(jac_a)
            B == TokenSet(jac_b)
        IN  /\ (A = {} /\ B = {}) => jac_out = [num |-> 1, den |-> 1]
            /\ (A = {}) # (B = {}) => jac_out = [num |-> 0, den |-> 1]
            /\ (A # {} /\ B # {}) =>
                  jac_out.num * Cardinality(A \cup B) = jac_out.den * Cardinality(A \cap B)
            /\ A = B => jac_out = [num |-> 1, den |-> 1]
            /\ (A \cap B = {} /\ A # {} /\ B # {}) => jac_out = [num |-> 0, den |-> 1]
            /\ jac_out = jaccard(jac_b, jac_a)
            /\ \A a2 \in Variants(jac_a) : jaccard(a2, jac_b) = jac_out
            /\ jac_out.den > 0
            /\ FractionLeq([num |-> 0, den |-> 1], jac_out)
            /\ FractionLeq(jac_out, [num |-> 1, den |-> 1])

C22_Witness ==
    /\ jac_pc = "returned"
    /\ jac_a = <<"S", " ", "t">>
    /\ jac_b = <<"t", " ", "t">>
    /\ jac_out = [num |-> 1, den |-> 2]

\* The position of a run in the table: 1 is the most recent run
Recency(run_id) == CHOOSE n \in 1..Len(mem_table) : mem_table[n].run_id = run_id

\* The runs among the n most recent ones
MostRecent(n) == {mem_table[i].run_id : i \in {j \in 1..Len(mem_table) : j <= n}}

Returned == {mem_out[i].run_id : i \in 1..Len(mem_out)}

\* The similarity of a stored run to the objective of the call
Similarity(run_id) == jaccard(mem_objective, mem_table[Recency(run_id)].objective)

\* What C23 says of a call that has returned
TopKOfScanned ==
    /\ Returned \subseteq MostRecent(mem_scan_limit)
    /\ Len(mem_out) <= mem_k
    /\ Cardinality(Returned) = Len(mem_out)
    /\ \A i \in 1..Len(mem_out) :
          /\ mem_out[i].similarity = Similarity(mem_out[i].run_id)
          /\ mem_out[i].objective = mem_table[Recency(mem_out[i].run_id)].objective
    /\ \A i, j \in 1..Len(mem_out) :
          i < j =>
             /\ FractionLeq(mem_out[j].similarity, mem_out[i].similarity)
             /\ mem_out[j].similarity = mem_out[i].similarity =>
                   Recency(mem_out[i].run_id) < Recency(mem_out[j].run_id)
    /\ \A r \in Returned :
          \A q \in MostRecent(mem_scan_limit) \ Returned :
             FractionLeq(Similarity(q), Similarity(r))

\* C23 as stated: find_relevant_runs considers only the scan_limit most
\* recent runs and returns at most k of them, by similarity descending, ties
\* most recent first, each returned run scoring at least as high as every
\* scanned run that is not returned.
C23_TopKOfScanned == mem_pc = "returned" => TopKOfScanned

\* C23, amended: the same for k >= 0 and scan_limit >= 0, where moreover as
\* many runs are returned as k and the number of scanned runs allow.
C23_TopKOfScannedForNaturals ==
    (mem_pc = "returned" /\ mem_k >= 0 /\ mem_scan_limit >= 0) =>
        /\ TopKOfScanned
        /\ Len(mem_out) = Min(mem_k, Cardinality(MostRecent(mem_scan_limit)))

C23_Witness ==
    /\ mem_pc = "returned"
    /\ mem_k = 2
    /\ mem_scan_limit = 3
    /\ Len(mem_table) = 3
    /\ Len(mem_out) = 2
    /\ mem_out[1].run_id = "r2"
    /\ mem_out[2].run_id = "r3"
    /\ mem_out[1].similarity = mem_out[2].similarity
    /\ FractionLeq(Similarity("r1"), mem_out[1].similarity)
    /\ Similarity("r1") # mem_out[1].similarity

\* Both concurrent calls have returned and both had missed the cache
BothMissed ==
    /\ \A p \in Procs : race_pc[p] = "returned" /\ race_ret[p].invoked

\* The rows the shared table holds under the key of the request
RaceRows == {row \in cache : row.cache_key = make_cache_key(race_req.tool_name, race_req.args)}

\* The tool function returned the same dict in both calls
SameDictOutput ==
    /\ \A p \in Procs : race_ret[p].outcome.kind = "dict"
    /\ race_ret[1].outcome = race_ret[2].outcome

\* C24 as stated: when both concurrent calls miss, both return ok=true, the
\* cache ends with exactly one entry for the key and, for a tool whose
\* output is a function of its arguments, the entry and both results are
\* equal.
C24_RaceIsHarmless ==
    BothMissed =>
        /\ \A p \in Procs : race_ret[p].result.ok
        /\ Cardinality(RaceRows) = 1
        /\ race_ret[1].outcome = race_ret[2].outcome =>
              /\ race_ret[1].result = race_ret[2].result
              /\ \A row \in RaceRows : row.result_json = race_ret[1].result.data

\* C24, amended: when both concurrent calls miss and the tool function
\* returns a dict in both, the calls return ok=true with that dict where its
\* keys are strings (ok=false where they are not), the table never holds
\* more than one row for the key and holds one when a cache write succeeded,
\* no other row changes, and for a tool whose output is a function of its
\* arguments both results are equal and the row is their JSON form.
C24_RaceIsHarmlessForDictOutputs ==
    /\ Cardinality(RaceRows) <= 1
    /\ (BothMissed /\ \A p \in Procs : race_ret[p].outcome.kind = "dict") =>
          /\ \A p \in Procs :
                /\ race_ret[p].propagated = ""
                /\ race_ret[p].result.ok = ValidToolData(race_ret[p].outcome.data)
                /\ race_ret[p].result.ok => race_ret[p].result.data = race_ret[p].outcome.data
          /\ (\E p \in Procs : ~Logged(race_ret[p], "tool_cache_write_error")) =>
                Cardinality(RaceRows) = 1
          /\ \A row \in RaceRows :
                \E p \in Procs : row.result_json = _stable_json(race_ret[p].outcome.data)
          /\ SameDictOutput =>
                /\ race_ret[1].result = race_ret[2].result
                /\ \A row \in RaceRows :
                      row.result_json = _stable_json(race_ret[1].outcome.data)
          /\ cache \ RaceRows \in {EmptyCache, StaleCache}

C24_Witness ==
    /\ BothMissed
    /\ SameDictOutput
    /\ \A p \in Procs :
          /\ race_ret[p].result.ok
          /\ race_ret[p].events = <<"tool_cache_miss">>
          /\ race_ret[p].cache_write
    /\ Cardinality(RaceRows) = 1
    /\ race_ret[1].cache # race_ret[2].cache \/ race_req.tool_name = SUMMARIZE

\* C25: when run_agent_loop ends in DONE or EXHAUSTED, the store accepts its
\* persist call: once save_run has been called no exception has left the
\* run, and the runs table holds the run's record, under its run_id, with
\* the objective, ok, the iteration count, the final answer, the state and
\* the step log of the result.
C25_PersistCallIsAccepted ==
    save_calls > 0 =>
        /\ raised = ""
        /\ \E r \in runs :
              /\ r.run_id = "run"
              /\ r.objective = objective
              /\ r.ok = result.ok
              /\ r.iterations = result.iterations
              /\ r.final_answer = result.final_answer
              /\ r.notes = notes
              /\ r.last_tool_results = last_tool_results
              /\ r.steps = executed_steps_log

IsBackoff(e) == e.event = "llm_backoff"

\* The waits of the call so far, in order
Waits == SelectSeq(events, IsBackoff)

FailureEvents == {"llm_validation_error", "llm_repair_failed", "llm_transient_error"}

\* C26: the n-th wait of generate_structured follows failed attempt n and
\* lasts base_backoff * 2^(n-1) seconds, after a validation failure as after
\* a transient one: the first wait is base_backoff, every later wait is
\* twice the one before, and so longer when base_backoff > 0.
C26_BackoffDoubles ==
    /\ \A n \in 1..Len(Waits) :
          /\ Waits[n].attempt = n
          /\ n = 1 => Waits[n].delay = base_backoff_seconds
          /\ n > 1 => Waits[n].delay = 2 * Waits[n - 1].delay
          /\ (n > 1 /\ base_backoff_seconds > 0) => Waits[n].delay > Waits[n - 1].delay
    /\ \A j \in 1..Len(events) :
          IsBackoff(events[j]) =>
             /\ j > 1
             /\ events[j - 1].event \in FailureEvents
             /\ events[j - 1].attempt = events[j].attempt

C26_Witness ==
    /\ Len(Waits) = 3
    /\ Waits[1].delay = 3
    /\ Waits[2].delay = 6
    /\ Waits[3].delay = 12
    /\ \E j \in 2..Len(events) :
          IsBackoff(events[j]) /\ events[j - 1].event = "llm_transient_error"
    /\ \E j \in 2..Len(events) :
          IsBackoff(events[j]) /\ events[j - 1].event = "llm_validation_error"
    /\ \E j \in 2..Len(events) :
          IsBackoff(events[j]) /\ events[j - 1].event = "llm_repair_failed"

\* C27: every wait of generate_structured is followed by another attempt:
\* when the call raises its exhaustion error it has waited max_attempts - 1
\* times, and the last thing it did before raising was not a wait.
C27_WaitsOnlyBetweenAttempts ==
    gs_raised.exc = "RuntimeError" =>
        /\ Len(Waits) = max_attempts - 1
        /\ ~IsBackoff(events[Len(events)])

\* The texts that are invalid JSON or a JSON object violating the schema
RepairableTexts == {TextBroken, TextStepsNotList}

\* What C28 says of the calls of self.generate made so far
RepairOnlyAfterInvalidOutput ==
    /\ \A i \in 1..Len(outputs) :
          outputs[i].call = "repair" =>
             /\ repair_enabled
             /\ i > 1
             /\ outputs[i - 1].call = "primary"
             /\ ~outputs[i - 1].raised
             /\ outputs[i - 1].text # ""
             /\ outputs[i - 1].text \in RepairableTexts
    /\ PrimaryCalls <= max_attempts
    /\ Len(outputs) <= 2 * max_attempts

\* C28: a repair call is made only right after an attempt's primary call
\* returned a non-empty text that is invalid JSON or a schema violation, and
\* only with repair enabled, so at most once per attempt; one call of
\* generate_structured makes at most 2 * max_attempts text-generation calls,
\* and none once it has returned or raised.
C28_RepairOnlyAfterInvalidOutput ==
    /\ []RepairOnlyAfterInvalidOutput
    /\ [][(gs_pc \in {"returned", "raised"}) => (outputs' = outputs)]_vars

C28_Witness ==
    /\ max_attempts = 3
    /\ Len(outputs) = 6
    /\ gs_pc = "raised"
    /\ \A i \in {2, 4, 6} : outputs[i].call = "repair" /\ ~outputs[i].raised
    /\ outputs[1].text = TextBroken
    /\ outputs[3].text = TextStepsNotList

\* The modelled texts that do not parse as JSON, and those that parse but do
\* not conform to Plan (a JSON array among them)
UnparsableTexts == {TextBroken, TextEmpty}
NonConformingTexts == {TextStepsNotList, TextArray}

\* C29: for every text the model returned, parse_and_validate returns a
\* conforming value, raises the invalid-JSON error exactly when the text does
\* not parse, or raises the schema-violation error exactly when it parses
\* and does not conform (a JSON value that is no object included); so a
\* transient failure is logged only for a call of self.generate that raised.
C29_ThreeOutcomesOfParsing ==
    /\ \A i \in 1..Len(outputs) :
          ~outputs[i].raised =>
             LET checked == parse_and_validate(outputs[i].text)
             IN  /\ checked.ok <=> outputs[i].text \in ValidTexts
                 /\ checked.error = "LLMInvalidJSON" <=> outputs[i].text \in UnparsableTexts
                 /\ checked.error = "LLMSchemaViolation"
                       <=> outputs[i].text \in NonConformingTexts
                 /\ checked.error \in {"", "LLMInvalidJSON", "LLMSchemaViolation"}
    /\ \A j \in 2..Len(events) :
          events[j].event = "llm_transient_error" => events[j - 1].event # "llm_usage"

\* What C30 says of a state of the run
MemoryOncePerRun ==
    /\ retrievals = IF pc = "start" THEN 0 ELSE 1
    /\ pc # "start" => memories_text = format_memories(mem_out)
    /\ Len(prompt_memories) = plan_requests
    /\ Len(prompt_memories) = IF pc = "plan" THEN iteration - 1 ELSE iteration
    /\ \A i \in 1..Len(prompt_memories) :
          /\ i = 1 => prompt_memories[i] = <<"(none)">>
          /\ i > 1 => prompt_memories[i] = memories_text
    /\ (pc = "for" /\ iteration < max_iterations) => ENABLED NextIteration
    /\ pc = "plan" => ENABLED RequestPlan

\* C30: memory is retrieved exactly once per run, before the first
\* iteration, and the retrieval and its context never change afterwards; the
\* prompt of iteration 1 carries "(none)" and the prompt of every later
\* iteration the context of that one retrieval; an empty retrieval keeps no
\* iteration from starting or planning.
C30_MemoryOncePerRun ==
    /\ []MemoryOncePerRun
    /\ [][(pc # "start") => /\ retrievals' = retrievals
                            /\ memories_text' = memories_text
                            /\ mem_out' = mem_out]_vars

C30_Witness ==
    /\ mem_out # <<>>
    /\ iteration = 2
    /\ Len(prompt_memories) = 2
    /\ prompt_memories[1] = <<"(none)">>
    /\ prompt_memories[2] # <<"(none)">>
    /\ prompt_memories[2][1].run_id \in {"r1", "r2"}

\* C31: a dry run with max_iterations >= 1 ends in iteration 1 after exactly
\* one plan request: it never reaches the execution, the done-check or the
\* save, it makes no router call (so no tool runs), writes no cache entry and
\* persists no run; what it returns has iterations = 1, ok = TRUE for a plan
\* with steps and ok = FALSE for an empty plan. The only other way it ends is
\* the planner's own failure, also in iteration 1.
C31_DryRunHasNoEffects ==
    (dry_run /\ max_iterations >= 1) =>
        /\ pc \in {"start", "for", "plan", "guard", "returned", "raised"}
        /\ (pc = "for") => (iteration = 0)
        /\ iteration <= 1
        /\ plan_requests <= 1
        /\ router_calls = <<>>
        /\ cache = EmptyCache
        /\ last_tool_results = <<>>
        /\ executed_steps_log = <<>>
        /\ save_calls = 0
        /\ runs = {}
        /\ (pc = "returned") =>
              /\ iteration = 1
              /\ plan_requests = 1
              /\ result.iterations = 1
              /\ result.ok = (plan # <<>>)
        /\ (pc = "raised") =>
              /\ iteration = 1
              /\ plan_requests = 1
              /\ raised = "RuntimeError: LLM failed after max_attempts attempts"

C31_Witness ==
    /\ dry_run
    /\ max_iterations = MaxIter
    /\ pc = "returned"
    /\ plan = EnforcePayload(PlanLookupThenSummarize, objective_payload(objective))
    /\ result.ok
    /\ result.iterations = 1

\* C32: the payload-mismatch error is never raised: whatever plan the planner
\* returned, after the override every summarize step carries the objective
\* payload as its text, so the strict comparison finds no mismatch.
C32_PayloadMismatchUnreachable ==
    /\ raised # "RuntimeError: Planner violated objective payload constraint"
    /\ \A p \in Plans :
          ~PayloadMismatch(EnforcePayload(p, objective_payload(objective)),
                           objective_payload(objective))
    /\ (pc \in {"execute", "observe", "check"}) =>
          ~PayloadMismatch(plan, objective_payload(objective))

\* The planner's summarize step had another text than the payload (or none),
\* and the run went past the guard to the execution
C32_Witness ==
    /\ pc = "execute"
    /\ PayloadMismatch(PlanLookupThenSummarize, objective_payload(objective))
    /\ PayloadMismatch(PlanSummarize, objective_payload(objective))
    /\ plan = EnforcePayload(PlanSummarize, objective_payload(objective))
    /\ raised = ""

\* The run left the for loop without a done check returning done: the failure
\* result of lines 248-255 was built (a dry run returns before that)
EndedExhausted == ~dry_run /\ result # NoRunResult /\ ~result.ok

\* C33: the result of a run that ends exhausted has no final_answer, and so
\* has the record handed to save_run; final_answer is assigned only by a done
\* check that returned done, so a rationale of a not-done check is never
\* carried along.
C33_ExhaustedHasNoFinalAnswer ==
    /\ EndedExhausted =>
          /\ result.final_answer = NoAnswer
          /\ final_answer = NoAnswer
          /\ RunRecord(result, notes, last_tool_results,
                       executed_steps_log).final_answer = NoAnswer
    /\ (final_answer # NoAnswer) =>
          /\ done_check.done
          /\ final_answer = done_check.rationale
          /\ result = AgentRunResult(TRUE, iteration, final_answer)

\* An exhausted run whose last done-check was not done and gave a rationale
C33_Witness ==
    /\ EndedExhausted
    /\ pc = "save"
    /\ iteration = MaxIter
    /\ done_check # NoDoneCheck
    /\ ~done_check.done
    /\ done_check.rationale # NoAnswer
    /\ result.final_answer = NoAnswer

\* The call was answered from the cache
CacheHit(call) == call.result.ok /\ ~call.invoked

\* C34: a call that returns ok = FALSE leaves the cache as it found it, and
\* the identical call made right after a failed one is not answered from the
\* cache. (The code writes the entry before the ToolResult is validated, so a
\* dict with a non-string key is stored by a call that returns ok = FALSE.)
C34_FailedCallLeavesCache ==
    /\ \A i \in 1..Len(router_log) :
          ~router_log[i].result.ok =>
              router_log[i].cache_after = router_log[i].cache_before
    /\ \A i \in 1..(Len(router_log) - 1) :
          ( /\ ~router_log[i].result.ok
            /\ router_log[i + 1].tool_name = router_log[i].tool_name
            /\ router_log[i + 1].args = router_log[i].args )
          => ~CacheHit(router_log[i + 1])

\* The last_tool_results entries of the StepExecutions of this iteration
ObservedNow == [i \in 1..Len(executed_steps) |-> ObservedResult(executed_steps[i])]

\* The done-check of the iteration is about to run
AtDoneCheck ==
    /\ plan # <<>>
    /\ executed_steps # <<>>
    /\ Len(executed_steps) <= Len(plan)
    /\ Len(router_calls) >= Len(executed_steps)
    /\ \A i \in 1..Len(executed_steps) :
          /\ executed_steps[i].step_id = plan[i].step_id
          /\ router_calls[Len(router_calls) - Len(executed_steps) + i].step = plan[i]
    /\ Len(last_tool_results) >= Len(executed_steps)
    /\ SubSeq(last_tool_results, Len(last_tool_results) - Len(executed_steps) + 1,
              Len(last_tool_results)) = ObservedNow
    /\ LatestToolResult(last_tool_results) = ObservedNow[Len(executed_steps)]

\* C35: the done-check of an iteration examines the result of the last
\* StepExecution of that same iteration: when it runs, the plan of the
\* iteration has steps, at least one of them was executed in this iteration,
\* and the latest tool result is the one observed for the last of them; the
\* done-check runs nowhere else (an empty-plan iteration goes back to the for
\* statement without it).
C35_DoneCheckSeesOwnIteration ==
    [][/\ (pc = "check") =>
             /\ AtDoneCheck
             /\ done_check' = deterministic_done_check(
                                 objective, ObservedNow[Len(executed_steps)])
       /\ (pc # "check") => (done_check' = done_check)
       /\ (pc = "guard" /\ plan = <<>>) => (pc' \in {"for", "returned"})]_vars

\* C35 witness: the done-check of iteration 2 runs on the failed result of
\* that iteration while an earlier iteration left a result with data
C35_Witness ==
    /\ pc = "check"
    /\ iteration = 2
    /\ Len(last_tool_results) > Len(executed_steps)
    /\ last_tool_results[1].kind = "data"
    /\ LatestToolResult(last_tool_results).kind = "error"
    /\ AtDoneCheck

\* The notes of the empty-plan iterations
IsEmptyPlanNote(n) == n.text = "Planner returned empty steps."

EmptyPlanIterations == Len(SelectSeq(notes, IsEmptyPlanNote))

\* An iteration has ended: the loop is back at the for statement, or the run
\* goes to save its result
IterationEnded == pc \in {"for", "save"} /\ iteration >= 1

FunctionRan(call) == call.invoked /\ call.ok

\* Each summarize step routed so far named no argument besides text and
\* max_sentences
OnlyDeclaredArguments ==
    \A i \in 1..Len(router_calls) :
        DictKeys(router_calls[i].step.args) = {"text", "max_sentences"}

SameResult(r1, r2) ==
    /\ r1.kind = r2.kind
    /\ r1.step_id = r2.step_id
    /\ r1.tool_name = r2.tool_name
    /\ r1.error = r2.error
    /\ SameMapping(r1.data, r2.data)

\* The function ran at most once, every done-check saw the same result, and a
\* done-check returned done in iteration 1 or never
ReplanningChangesNothing ==
    /\ Cardinality({i \in 1..Len(router_calls) : FunctionRan(router_calls[i])}) <= 1
    /\ \A i \in 1..Len(last_tool_results) : \A j \in 1..Len(last_tool_results) :
          SameResult(last_tool_results[i], last_tool_results[j])
    /\ (done_check.done \/ result.ok) => (iteration = 1)

\* C37 as stated: in a run whose plans are all a single summarize_text_local
\* step and whose cache reads and writes succeed, the summarize function runs
\* at most once, every iteration's done-check sees the same data, and the run
\* is done in iteration 1 or not at all.
C37_ReplanningChangesNothing == ReplanningChangesNothing

\* C37 amended: the same, for plans whose summarize step names no argument
\* besides text and max_sentences; then every routed step returns ok with
\* data, the first one runs the function and each later one is answered from
\* the cache, and the loop is left with the done result of iteration 1 or
\* with the exhausted result after max_iterations iterations.
C37_ReplanningChangesNothingForDeclaredArguments ==
    /\ \A i \in 1..Len(router_calls) :
          router_calls[i].step.tool_name = SUMMARIZE
    /\ Len(router_calls) <= iteration
    /\ OnlyDeclaredArguments =>
          /\ ReplanningChangesNothing
          /\ \A i \in 1..Len(router_calls) :
                /\ router_calls[i].ok
                /\ router_calls[i].invoked <=> (i = 1)
          /\ \A i \in 1..Len(last_tool_results) : last_tool_results[i].kind = "data"
          /\ (pc = "save") =>
                \/ (result.ok /\ iteration = 1)
                \/ (~result.ok /\ iteration = IF max_iterations < 1 THEN 0 ELSE max_iterations)

\* C37 witness: the summarize step of iteration 2, planned with other
\* arguments than that of iteration 1, was a cache hit, and the second
\* done-check, like the first, was not done
C37_Witness ==
    /\ OnlyDeclaredArguments
    /\ iteration = 2
    /\ pc = "for"
    /\ plan = EnforcePayload(PlanSummarizeLong, objective_payload(objective))
    /\ Len(router_calls) = 2
    /\ router_calls[1].step.args # router_calls[2].step.args
    /\ router_calls[1].invoked
    /\ ~router_calls[2].invoked
    /\ Len(last_tool_results) = 2
    /\ ~done_check.done
    /\ done_check # NoDoneCheck

PlannerExhausted == raised = "RuntimeError: LLM failed after max_attempts attempts"

\* C38: when the plan request of an iteration raises the exhaustion error of
\* generate_structured, the error leaves run_agent_loop: the run stops there,
\* save_run was never called and no run record exists, no result was built,
\* and the step that raises leaves the cache, with the entries the earlier
\* iterations wrote, and the accumulated state as they were.
C38_PlannerFailurePropagates ==
    /\ [](PlannerExhausted =>
              /\ pc = "raised"
              /\ iteration >= 1
              /\ plan_requests = iteration
              /\ save_calls = 0
              /\ runs = {}
              /\ result = NoRunResult)
    /\ [][(PlannerExhausted' /\ ~PlannerExhausted) =>
              /\ pc = "plan"
              /\ cache' = cache
              /\ notes' = notes
              /\ last_tool_results' = last_tool_results
              /\ executed_steps_log' = executed_steps_log]_vars
    /\ [][PlannerExhausted => UNCHANGED vars]_vars

\* C38 witness: the plan request of iteration 2 fails after iteration 1 ran
\* a tool and wrote its result to the cache
C38_Witness ==
    /\ PlannerExhausted
    /\ iteration = 2
    /\ cache # EmptyCache
    /\ \E i \in 1..Len(router_calls) : router_calls[i].invoked /\ router_calls[i].ok
    /\ notes # <<>>
    /\ last_tool_results # <<>>
    /\ executed_steps_log # <<>>
    /\ save_calls = 0

\* C39: once run_agent_loop has built its result, the iterations field is
\* the number of loop iterations the run started. (For a negative
\* max_iterations the exhausted result carries max_iterations itself, while
\* no iteration started.)
C39_IterationsFieldCountsIterations ==
    (pc \in {"save", "returned"}) => (result.iterations = iteration)

====
